---- MODULE Spec2Model ----
(***************************************************************************)
(* A state-machine model of the T.30 FAX session engine of spandsp         *)
(* (src/src/t30.c).  The engine's t30_state_t is the record held in the    *)
(* variable s; every C function that changes it is an operator from a      *)
(* record to a record, and every entry point of the engine is an action.   *)
(***************************************************************************)
EXTENDS Integers, Sequences, FiniteSets, TLC

VARIABLES s

vars == <<s>>

(***************************************************************************)
(* Bounds of the model.                                                    *)
(***************************************************************************)
\* Slots of the ECM partial page buffer (256 in the code).
EcmSlots == 2
\* The phase E callback invocations counted before the count saturates.
MaxECalls == 3
\* The events delivered after the first phase E callback, before the
\* application releases the session.
MaxAfter == 2
\* The retries counted: the code counts every expiry of T4, without a limit.
MaxRetries == 4
\* Pages of the document to send.
MaxPages == 1

\* The longest run of zeros counted in a trainability test, in bits.
MaxZeros == 14400

(***************************************************************************)
(* Program constants.                                                      *)
(***************************************************************************)
MAX_MESSAGE_TRIES == 3
SAMPLE_RATE == 8000
DEFAULT_TIMER_T0 == 60000
DEFAULT_TIMER_T1 == 35000
DEFAULT_TIMER_T2 == 7000
DEFAULT_TIMER_T3 == 15000
DEFAULT_TIMER_T4 == 3450
DEFAULT_TIMER_T5 == 65000
T30_V17_FALLBACK_START == 0
T30_V29_FALLBACK_START == 3
T30_V27TER_FALLBACK_START == 6
\* Octets of a PPR frame: 3 of header and 32 of map.
PPR_FRAME_LEN == 35
\* The longest FCD frame accepted: 4 of header and 256 of data.
MAX_FCD_LEN == 260
\* The shortest DIS, DTC or DCS frame that is processed.
MIN_DIS_DCS_LEN == 6

T30_MIN_SCAN_0MS == 7
\* The shortest PPS frame that is processed.
MIN_PPS_LEN == 7

ms_to_samples(t) == (t*SAMPLE_RATE) \div 1000

Slots == 0..(EcmSlots - 1)

(***************************************************************************)
(* fallback_sequence: bit rate, modem, the modem family it needs and the   *)
(* DCS rate code (bits 11..14 of the DCS, as DISBIT3..DISBIT6 of octet 4). *)
(* Entry 8 is the terminator.                                              *)
(***************************************************************************)
fallback_sequence ==
    [i \in 0..8 |->
        CASE i = 0 -> [bit_rate |-> 14400, modem_type |-> "V17_14400", which |-> "V17",    dcs_code |-> 32]
          [] i = 1 -> [bit_rate |-> 12000, modem_type |-> "V17_12000", which |-> "V17",    dcs_code |-> 40]
          [] i = 2 -> [bit_rate |-> 9600,  modem_type |-> "V17_9600",  which |-> "V17",    dcs_code |-> 36]
          [] i = 3 -> [bit_rate |-> 9600,  modem_type |-> "V29_9600",  which |-> "V29",    dcs_code |-> 4]
          [] i = 4 -> [bit_rate |-> 7200,  modem_type |-> "V17_7200",  which |-> "V17",    dcs_code |-> 44]
          [] i = 5 -> [bit_rate |-> 7200,  modem_type |-> "V29_7200",  which |-> "V29",    dcs_code |-> 12]
          [] i = 6 -> [bit_rate |-> 4800,  modem_type |-> "V27TER_4800", which |-> "V27TER", dcs_code |-> 8]
          [] i = 7 -> [bit_rate |-> 2400,  modem_type |-> "V27TER_2400", which |-> "V27TER", dcs_code |-> 0]
          [] OTHER -> [bit_rate |-> 0,     modem_type |-> "NONE",      which |-> "NONE",   dcs_code |-> 0]]

(***************************************************************************)
(* HDLC frames.  fcf is the frame type (octet 2 without its low bit), x    *)
(* the low bit of octet 2, final the final-frame bit of the control octet, *)
(* len the frame's length in octets, fcf2 the second type octet of a PPS   *)
(* or EOR, b the other octets that matter and map the bits set in a PPR.   *)
(***************************************************************************)
\* A frame built in place: its sender writes the address 0xFF and the
\* control octet 0x13 (final) or 0x03.
Frame(fcf, x, final, len, fcf2, b, map) ==
    [fcf |-> fcf, x |-> x, final |-> final, len |-> len, fcf2 |-> fcf2, b |-> b, map |-> map,
     addr |-> 255, ctrl |-> IF final THEN 19 ELSE 3]

\* A frame sent from a buffer of the session: hdr is the buffer's octets 0
\* and 1 as they are when it is sent.
BufFrame(hdr, fcf, x, len, fcf2, b, map) ==
    [fcf |-> fcf, x |-> x, final |-> ((hdr[2] \div 16) % 2 = 1), len |-> len,
     fcf2 |-> fcf2, b |-> b, map |-> map, addr |-> hdr[1], ctrl |-> hdr[2]]

NoFrame == Frame("NONE", 0, FALSE, 0, "", <<>>, {})

(***************************************************************************)
(* The calls made to the front end and to the application.                 *)
(***************************************************************************)
set_rx_type(st, type) == [st EXCEPT !.rx_type = type]

set_tx_type(st, type) ==
    [st EXCEPT !.tx_type = type, !.tx_busy = (type \notin {"NONE", "DONE"})]

\* burst records the frames handed to the send handler from the first
\* frame of an ECM burst up to the first frame that is neither FCD nor RCP.
send_frame(st, fr) ==
    [st EXCEPT !.tx = Append(@, fr), !.last_tx = fr, !.tx_busy = TRUE,
               !.burst = IF st.in_burst
                         THEN Append(@, IF fr.fcf = "FCD" THEN <<"FCD", fr.b[1]>>
                                                         ELSE <<fr.fcf, -1>>)
                         ELSE @,
               !.in_burst = @ /\ fr.fcf \in {"FCD", "RCP"}]

\* send_hdlc_handler(NULL, 0): the frames queued so far are all there is.
send_hdlc_flush(st) == [st EXCEPT !.tx_busy = TRUE]

phase_e_handler(st) ==
    [st EXCEPT !.e_calls = IF @ < MaxECalls THEN @ + 1 ELSE @,
               !.e_status = st.current_status]

send_simple_frame(st, type) ==
    send_frame(st, Frame(type, IF st.dis_received THEN 1 ELSE 0, TRUE, 3, "", <<>>, {}))

(***************************************************************************)
(* Phases and states.                                                      *)
(***************************************************************************)
\* The modems of a phase: fast is the modem of the session's row of the
\* fallback table.
set_phase_modems(a, phase, fast) ==
    CASE phase = "A_CED" -> set_tx_type(set_rx_type(a, "V21"), "CED")
      [] phase = "A_CNG" -> set_tx_type(set_rx_type(a, "V21"), "CNG")
      [] phase \in {"B_RX", "D_RX"} -> set_tx_type(set_rx_type(a, "V21"), "NONE")
      [] phase \in {"B_TX", "D_TX"} ->
            set_tx_type(set_rx_type(
                IF ~a.far_end_detected /\ a.timer_t0_t1 > 0
                THEN [a EXCEPT !.timer_t0_t1 = ms_to_samples(DEFAULT_TIMER_T1),
                               !.far_end_detected = TRUE]
                ELSE a, "NONE"), "V21")
      [] phase \in {"C_NON_ECM_RX", "C_ECM_RX"} ->
            set_tx_type(set_rx_type([a EXCEPT !.timer_t2_t4 = ms_to_samples(DEFAULT_TIMER_T2),
                                              !.timer_is_t4 = FALSE], fast), "NONE")
      [] phase \in {"C_NON_ECM_TX", "C_ECM_TX"} ->
            set_tx_type(set_rx_type(a, "NONE"), fast)
      [] phase = "E" ->
            set_tx_type(set_rx_type([a EXCEPT !.training_current_zeros = 0,
                                              !.training_most_zeros = 0,
                                              !.run_current = 0,
                                              !.run_most = 0], "NONE"), "PAUSE")
      [] phase = "CALL_FINISHED" -> set_tx_type(set_rx_type(a, "DONE"), "DONE")
      [] OTHER -> a

set_phase(st, phase) ==
    IF phase = st.phase THEN st
    ELSE set_phase_modems([st EXCEPT !.rx_signal_present =
                                         IF st.phase \notin {"A_CED", "A_CNG"} THEN FALSE ELSE @,
                                     !.rx_trained = FALSE,
                                     !.phase = phase],
                          phase,
                          fallback_sequence[st.current_fallback].modem_type)

queue_phase(st, phase) ==
    IF st.rx_signal_present
    THEN [st EXCEPT !.next_phase = phase]
    ELSE [set_phase(st, phase) EXCEPT !.next_phase = "IDLE"]

set_state(st, state) == [st EXCEPT !.state = state, !.step = 0]

disconnect(st) ==
    set_state(set_phase([st EXCEPT !.timer_t0_t1 = 0, !.timer_t2_t4 = 0,
                                   !.timer_t3 = 0, !.timer_t5 = 0], "E"), "B")

send_dcn(st) == send_simple_frame(set_state(queue_phase(st, "D_TX"), "C"), "DCN")

(***************************************************************************)
(* The DIS/DTC frame: octets 3..18 of dis_dtc_frame, with the low bit of   *)
(* octet 2 kept as dis_dtc_x.  Bit n of the T.30 numbering is bit          *)
(* (n - 1) % 8 of octet 3 + (n - 1) \div 8.                                *)
(***************************************************************************)
Max(S) == CHOOSE m \in S : \A n \in S : n <= m

Pow2(k) == 2^k

test_octet_bit(v, k) == (v \div Pow2(k)) % 2 = 1

or_octet_bit(v, k) == IF test_octet_bit(v, k) THEN v ELSE v + Pow2(k)

clr_octet_bit(v, k) == IF test_octet_bit(v, k) THEN v - Pow2(k) ELSE v

set_frame_bit(fr, bit) == [fr EXCEPT ![3 + ((bit - 1) \div 8)] = or_octet_bit(@, (bit - 1) % 8)]

clr_frame_bit(fr, bit) == [fr EXCEPT ![3 + ((bit - 1) \div 8)] = clr_octet_bit(@, (bit - 1) % 8)]

test_frame_bit(fr, bit) == test_octet_bit(fr[3 + ((bit - 1) \div 8)], (bit - 1) % 8)

set_frame_bits(fr, bits) ==
    [i \in 3..18 |->
        LET here == {b \in bits : 3 + ((b - 1) \div 8) = i}
            add[B \in SUBSET here] ==
                IF B = {} THEN fr[i]
                ELSE LET b == CHOOSE b \in B : TRUE
                     IN or_octet_bit(add[B \ {b}], (b - 1) % 8)
        IN add[here]]

\* A variant that offers the modems and nothing else.
dis_dtc_bits_modems(st) ==
    (IF "V27TER" \in st.supported_modems THEN {12} ELSE {})
    \cup (IF "V29" \in st.supported_modems THEN {11} ELSE {})
    \cup (IF "V17" \in st.supported_modems THEN {11, 12, 14} ELSE {})
    \cup {21, 22, 23, 45}

\* The bits of the DIS and DTC that say what the session is capable of.
\* The receive and transmit bits 9 and 10 are set when the frame is sent.
dis_dtc_bits(st) ==
    (IF "T37" \in st.iaf THEN {1} ELSE {})
    \cup (IF "T38" \in st.iaf THEN {3} ELSE {})
    \cup (IF "V27TER" \in st.supported_modems THEN {12} ELSE {})
    \cup (IF "V29" \in st.supported_modems THEN {11} ELSE {})
    \cup (IF "V17" \in st.supported_modems THEN {11, 12, 14} ELSE {})
    \cup (IF "FINE" \in st.supported_resolutions THEN {15} ELSE {})
    \cup (IF "T4_2D" \in st.supported_compressions THEN {16} ELSE {})
    \cup (IF "303MM" \in st.supported_image_sizes THEN {18}
          ELSE IF "255MM" \in st.supported_image_sizes THEN {17} ELSE {})
    \cup (IF "UNLIMITED" \in st.supported_image_sizes THEN {20}
          ELSE IF "B4" \in st.supported_image_sizes THEN {19} ELSE {})
    \cup {21, 22, 23}
    \cup (IF "NONE" \in st.supported_compressions THEN {26} ELSE {})
    \cup (IF st.ecm_allowed
          THEN {27}
               \cup (IF "T6" \in st.supported_compressions THEN {31} ELSE {})
               \cup (IF "T43" \in st.supported_compressions THEN {36} ELSE {})
               \cup (IF "T85" \in st.supported_compressions THEN {78} ELSE {})
               \cup (IF "T45" \in st.supported_compressions THEN {116} ELSE {})
          ELSE {})
    \cup (IF st.support_fnv THEN {33} ELSE {})
    \cup (IF "SEP" \in st.supported_polling_features THEN {34} ELSE {})
    \cup (IF "PSA" \in st.supported_polling_features THEN {35} ELSE {})
    \cup (IF "SUPERFINE" \in st.supported_resolutions THEN {41} ELSE {})
    \cup (IF "300_300" \in st.supported_resolutions THEN {42} ELSE {})
    \cup (IF st.supported_resolutions \cap {"400_400", "R16"} # {} THEN {43} ELSE {})
    \cup {45}
    \cup (IF "US_LETTER" \in st.supported_image_sizes THEN {76} ELSE {})
    \cup (IF "US_LEGAL" \in st.supported_image_sizes THEN {77} ELSE {})
    \cup (IF "600_600" \in st.supported_resolutions THEN {105} ELSE {})
    \cup (IF "1200_1200" \in st.supported_resolutions THEN {106} ELSE {})
    \cup (IF "300_600" \in st.supported_resolutions THEN {107} ELSE {})
    \cup (IF "400_800" \in st.supported_resolutions THEN {108} ELSE {})
    \cup (IF "600_1200" \in st.supported_resolutions THEN {109} ELSE {})
    \cup (IF "FLOW_CONTROL" \in st.iaf THEN {121} ELSE {})
    \cup (IF "CONTINUOUS_FLOW" \in st.iaf THEN {123} ELSE {})

\* A variant that leaves octets 0 and 1 of the buffer as they were.
build_dis_or_dtc_body(st) ==
    [st EXCEPT !.dis_dtc_x = IF st.dis_received THEN 1 ELSE 0,
               !.dis_dtc_frame = set_frame_bits([i \in 3..18 |-> 0], dis_dtc_bits(st)),
               !.dis_dtc_len = 19]

build_dis_or_dtc(st) ==
    [st EXCEPT !.dis_dtc_hdr = <<255, 19>>,
               !.dis_dtc_x = IF st.dis_received THEN 1 ELSE 0,
               !.dis_dtc_frame = set_frame_bits([i \in 3..18 |-> 0], dis_dtc_bits(st)),
               !.dis_dtc_len = 19]

\* A variant that trims the message and sets no extension bit.
prune_frame_trim(fr) ==
    LET nz == {i \in 5..18 : fr[i] % 128 # 0}
        last == IF nz = {} THEN 4 ELSE Max(nz)
    IN [len |-> last + 1,
        frame |-> [i \in 3..18 |-> IF i <= 4 THEN fr[i] ELSE fr[i] % 128]]

\* Find the last octet that is really needed, set the extension bits, and
\* trim the message length.
prune_frame(fr) ==
    LET nz == {i \in 5..18 : fr[i] % 128 # 0}
        last == IF nz = {} THEN 4 ELSE Max(nz)
    IN [len |-> last + 1,
        frame |-> [i \in 3..18 |->
                      IF i <= 4 THEN fr[i]
                      ELSE IF i < last THEN (fr[i] % 128) + 128
                      ELSE fr[i] % 128]]

prune_dis_dtc(st) ==
    LET p == prune_frame(st.dis_dtc_frame)
    IN [st EXCEPT !.dis_dtc_frame = p.frame, !.dis_dtc_len = p.len]

set_dis_or_dtc(st) ==
    LET a == IF st.rx_file THEN set_frame_bit(st.dis_dtc_frame, 10)
                           ELSE clr_frame_bit(st.dis_dtc_frame, 10)
        b == IF st.tx_file THEN set_frame_bit(a, 9) ELSE clr_frame_bit(a, 9)
    IN [st EXCEPT !.dis_dtc_x = IF st.dis_received THEN 1 ELSE 0, !.dis_dtc_frame = b]

\* The octets 3..len-1 of a DIS, DTC or DCS as they go out.
frame_octets(fr, len) == [i \in 1..(len - 3) |-> fr[i + 2]]

prune_dcs(st) ==
    LET p == prune_frame(st.dcs_frame)
    IN [st EXCEPT !.dcs_frame = p.frame, !.dcs_len = p.len]

(***************************************************************************)
(* The frames with a payload of the application's.                         *)
(***************************************************************************)
send_20digit_msg_frame(st, cmd) ==
    send_frame(st, Frame(cmd, IF st.dis_received THEN 1 ELSE 0, FALSE, 23, "", <<>>, {}))

send_nsf_frame(st) ==
    send_frame(st, Frame("NSF", IF st.dis_received THEN 1 ELSE 0, FALSE,
                         st.local_nsf_len + 3, "", <<>>, {}))

send_dis_or_dtc_sequence(st) ==
    LET a == set_state(prune_dis_dtc(st), "R")
    IN IF a.local_nsf_len # 0 THEN [send_nsf_frame(a) EXCEPT !.step = 0]
       ELSE IF a.local_ident THEN [send_20digit_msg_frame(a, "CSI") EXCEPT !.step = 1]
       ELSE LET b == set_dis_or_dtc(a)
            IN [send_frame(b, BufFrame(b.dis_dtc_hdr, "DIS", b.dis_dtc_x, b.dis_dtc_len, "",
                                       frame_octets(b.dis_dtc_frame, b.dis_dtc_len), {}))
                  EXCEPT !.step = 2]

send_dcs_frame(st) ==
    send_frame(st, BufFrame(st.dcs_hdr, "DCS", st.dcs_x, st.dcs_len, "",
                            frame_octets(st.dcs_frame, st.dcs_len), {}))

send_dcs_sequence(st) ==
    LET a == set_state(prune_dcs(st), "D")
    IN IF a.local_password THEN [send_20digit_msg_frame(a, "PWD") EXCEPT !.step = 0]
       ELSE IF a.local_sub_address THEN [send_20digit_msg_frame(a, "SUB") EXCEPT !.step = 1]
       ELSE IF a.local_ident THEN [send_20digit_msg_frame(a, "TSI") EXCEPT !.step = 2]
       ELSE [send_dcs_frame(a) EXCEPT !.step = 3]

start_receiving_document(st) ==
    IF ~st.rx_file THEN st
    ELSE send_dis_or_dtc_sequence([queue_phase(st, "B_TX") EXCEPT
                                       !.dis_received = FALSE, !.ecm_page = 0, !.ecm_block = 0])

send_pps_frame(st) ==
    send_frame(st, Frame("PPS", IF st.dis_received THEN 1 ELSE 0, TRUE, 7,
                         IF st.ecm_at_page_end THEN st.next_tx_step ELSE "NULL",
                         <<IF st.ecm_at_page_end /\ st.dis_received THEN 1 ELSE 0,
                           st.ecm_page % 256, st.ecm_block % 256,
                           IF st.ecm_frames_this_burst = 0 THEN 0
                           ELSE st.ecm_frames_this_burst - 1>>, {}))

\* What send_pps_frame returns: octet 3 without its low bit.
pps_fcf2(st) == IF st.ecm_at_page_end THEN st.next_tx_step ELSE "NULL"

(***************************************************************************)
(* Construction.                                                           *)
(***************************************************************************)
\* memset(s, 0, sizeof(*s)) and the defaults of t30_init, with the
\* application's settings cfg made before the call starts.
t30_zero(cfg) ==
    [calling_party |-> cfg.calling_party,
     tx_file |-> cfg.tx_file, rx_file |-> cfg.rx_file,
     ecm_allowed |-> cfg.ecm_allowed,
     supported_modems |-> cfg.supported_modems,
     state |-> "ANSWERING", phase |-> "IDLE", next_phase |-> "IDLE", step |-> 0,
     timer_t0_t1 |-> 0, timer_t2_t4 |-> 0, timer_t3 |-> 0, timer_t5 |-> 0,
     timer_is_t4 |-> FALSE, far_end_detected |-> FALSE, dis_received |-> FALSE,
     retries |-> 0, current_status |-> "OK",
     current_fallback |-> 0, current_permitted_modems |-> {},
     short_train |-> FALSE, error_correcting_mode |-> FALSE,
     rx_signal_present |-> FALSE, rx_trained |-> FALSE, in_message |-> FALSE,
     phase_d_handler |-> cfg.phase_d_handler, crp_enabled |-> FALSE,
     t4_stats |-> [bad_rows |-> 0, length |-> 100],
     training_most_zeros |-> 0, training_current_zeros |-> 0,
     next_tx_step |-> "NONE", next_rx_step |-> "NONE",
     ppr_count |-> 0, receiver_not_ready_count |-> 0,
     ecm_len |-> [k \in Slots |-> 0], ecm_octet3 |-> [k \in Slots |-> 0],
     ecm_frames |-> 0, ecm_current_frame |-> 0,
     ecm_frames_this_burst |-> 0, ecm_at_page_end |-> FALSE,
     ecm_page |-> 0, ecm_block |-> 0, ecm_first_bad_frame |-> 0,
     ecm_frame_map |-> {}, last_pps_fcf2 |-> "",
     local_nsf_len |-> cfg.local_nsf_len, local_ident |-> cfg.local_ident,
     local_password |-> cfg.local_password, local_sub_address |-> cfg.local_sub_address,
     local_interrupt_pending |-> FALSE, iaf_no_tcf |-> cfg.iaf_no_tcf,
     t4_pages |-> cfg.pages, t4_page_frames |-> cfg.page_frames,
     t4_x_resolution |-> cfg.x_resolution, t4_y_resolution |-> cfg.y_resolution,
     t4_image_width |-> cfg.image_width,
     x_resolution |-> "ZERO", y_resolution |-> "ZERO", image_width |-> "ZERO",
     t4_pages_left |-> 0, t4_frames_left |-> 0, ecm_sent |-> FALSE,
     t4_tx_ok |-> cfg.t4_tx_ok, t4_rx_ok |-> cfg.t4_rx_ok,
     min_scan_time_code |-> 0, line_encoding |-> "T4_1D", rc |-> 0,
     committed |-> FALSE, after |-> 0, ftt_run |-> 0,
     burst |-> <<>>, in_burst |-> FALSE, run_current |-> 0, run_most |-> 0,
     dis_dtc_x |-> 0, dis_dtc_frame |-> [i \in 3..18 |-> 0], dis_dtc_len |-> 0,
     dcs_x |-> 0, dcs_frame |-> [i \in 3..18 |-> 0], dcs_len |-> 0,
     dis_dtc_hdr |-> <<0, 0>>, dcs_hdr |-> <<0, 0>>,
     ecm_hdr |-> [k \in Slots |-> <<0, 0>>],
     supported_compressions |-> {"T4_1D", "T4_2D"},
     supported_resolutions |-> {"STANDARD", "FINE", "SUPERFINE", "R8"},
     supported_image_sizes |-> {"US_LETTER", "US_LEGAL", "UNLIMITED", "215MM"},
     iaf |-> {}, support_fnv |-> FALSE, supported_polling_features |-> {},
     far_caps |-> {}, far_dis |-> NoFrame,
     tx |-> <<>>, last_tx |-> NoFrame, tx_busy |-> FALSE,
     tx_type |-> "NONE", rx_type |-> "NONE",
     trained_fallback |-> -1, calls |-> 0,
     e_calls |-> 0, e_status |-> "OK"]

\* A variant that leaves far_end_detected and the T0/T1 slot as they are.
t30_restart_keep_slot(st) ==
    LET a == [st EXCEPT !.phase = "IDLE", !.next_phase = "IDLE", !.current_fallback = 0,
                        !.rx_signal_present = FALSE, !.rx_trained = FALSE,
                        !.current_status = "OK", !.ppr_count = 0,
                        !.receiver_not_ready_count = 0]
        a1 == build_dis_or_dtc(a)
    IN IF a1.calling_party
       THEN set_phase(set_state(a1, "T"), "A_CNG")
       ELSE set_phase(set_state(a1, "ANSWERING"), "A_CED")

t30_restart(st) ==
    LET a == [st EXCEPT !.phase = "IDLE", !.next_phase = "IDLE", !.current_fallback = 0,
                        !.rx_signal_present = FALSE, !.rx_trained = FALSE,
                        !.current_status = "OK", !.ppr_count = 0,
                        !.receiver_not_ready_count = 0]
        a1 == build_dis_or_dtc(a)
        b == IF a1.calling_party
             THEN set_phase(set_state(a1, "T"), "A_CNG")
             ELSE set_phase(set_state(a1, "ANSWERING"), "A_CED")
    IN [b EXCEPT !.far_end_detected = FALSE,
                 !.timer_t0_t1 = ms_to_samples(DEFAULT_TIMER_T0)]

t30_init(cfg) == t30_restart(t30_zero(cfg))

(***************************************************************************)
(* The application's settings of what the session is capable of.  Each     *)
(* but t30_set_iaf_mode builds the DIS and DTC again.                      *)
(***************************************************************************)
t30_set_iaf_mode(st, iaf) == [st EXCEPT !.iaf = iaf]

t30_set_supported_modems(st, supported_modems) ==
    build_dis_or_dtc([st EXCEPT !.supported_modems = supported_modems])

t30_set_supported_compressions(st, supported_compressions) ==
    build_dis_or_dtc([st EXCEPT !.supported_compressions = supported_compressions])

t30_set_supported_resolutions(st, supported_resolutions) ==
    build_dis_or_dtc([st EXCEPT !.supported_resolutions = supported_resolutions])

t30_set_supported_image_sizes(st, supported_image_sizes) ==
    build_dis_or_dtc([st EXCEPT !.supported_image_sizes = supported_image_sizes])

t30_set_ecm_capability(st, enabled) ==
    build_dis_or_dtc([st EXCEPT !.ecm_allowed = enabled])

(***************************************************************************)
(* t30_terminate.                                                          *)
(***************************************************************************)
t30_terminate_dropped(st) ==
    IF st.phase # "CALL_FINISHED"
    THEN set_phase(set_state(phase_e_handler([st EXCEPT !.current_status = "CALLDROPPED"]),
                             "CALL_FINISHED"), "CALL_FINISHED")
    ELSE st

t30_terminate(st) ==
    IF st.phase # "CALL_FINISHED"
    THEN LET a == CASE st.state = "C" -> disconnect(st)
                    [] st.state = "B" -> st
                    [] OTHER -> [st EXCEPT !.current_status = "CALLDROPPED"]
         IN set_phase(set_state(phase_e_handler(a), "CALL_FINISHED"), "CALL_FINISHED")
    ELSE st

(***************************************************************************)
(* Timers.                                                                 *)
(***************************************************************************)
repeat_last_command(st) ==
    CASE st.state = "R" ->
            send_dis_or_dtc_sequence(set_phase([st EXCEPT !.dis_received = FALSE], "B_TX"))
      [] st.state = "III_Q_MCF" -> send_simple_frame(set_phase(st, "D_TX"), "MCF")
      [] st.state = "III_Q_RTP" -> send_simple_frame(set_phase(st, "D_TX"), "RTP")
      [] st.state = "III_Q_RTN" -> send_simple_frame(set_phase(st, "D_TX"), "RTN")
      [] st.state = "II_Q" -> send_simple_frame(set_phase(st, "D_TX"), st.next_tx_step)
      [] st.state \in {"IV_PPS_NULL", "IV_PPS_Q"} -> send_pps_frame(set_phase(st, "D_TX"))
      [] st.state \in {"IV_PPS_RNR", "IV_EOR_RNR"} ->
            send_simple_frame(set_phase(st, "D_TX"), "RNR")
      [] st.state = "D" -> send_dcs_sequence(set_phase(st, "B_TX"))
      [] st.state = "F_FTT" -> send_simple_frame(set_phase(st, "B_TX"), "FTT")
      [] st.state = "F_CFR" -> send_simple_frame(set_phase(st, "B_TX"), "CFR")
      [] st.state = "D_POST_TCF" ->
            send_dcs_sequence(set_phase([st EXCEPT !.short_train = FALSE], "B_TX"))
      [] OTHER -> st

\* A variant that reports the expiry of the slot as that of T1.
timer_t0_expired_as_t1(st) == disconnect([st EXCEPT !.current_status = "T1_EXPIRED"])

timer_t0_expired(st) == disconnect([st EXCEPT !.current_status = "T0_EXPIRED"])

timer_t1_expired(st) ==
    LET a == [st EXCEPT !.current_status = "T1_EXPIRED"]
    IN CASE st.state = "T" -> disconnect(a)
         [] st.state = "R" -> send_dcn(a)
         [] OTHER -> a

timer_t2_expired_disconnect(st) ==
    disconnect([st EXCEPT !.current_status = "T2EXPRX"])

timer_t2_expired(st) ==
    LET a == CASE st.state \in {"F_DOC_ECM", "F_DOC_NON_ECM"} ->
                     [st EXCEPT !.current_status = "T2EXPFAXRX"]
               [] st.state \in {"F_POST_DOC_ECM", "F_POST_DOC_NON_ECM"} ->
                     [st EXCEPT !.current_status = "T2EXPMPSRX"]
               [] st.state \in {"IV_PPS_RNR", "IV_EOR_RNR"} ->
                     [st EXCEPT !.current_status = "T2EXPRRRX"]
               [] st.state = "R" -> [st EXCEPT !.current_status = "T2EXPRX"]
               [] OTHER -> st
    IN start_receiving_document(set_phase(a, "B_TX"))

timer_t3_expired(st) == disconnect([st EXCEPT !.current_status = "T3_EXPIRED"])

timer_t4_expired(st) ==
    LET a == [st EXCEPT !.retries = @ + 1]
    IN IF a.retries > MAX_MESSAGE_TRIES
       THEN send_dcn([a EXCEPT !.current_status =
                          CASE a.state = "D_POST_TCF" -> "PHBDEADTX"
                            [] a.state \in {"II_Q", "IV_PPS_NULL", "IV_PPS_Q"} -> "PHDDEADTX"
                            [] OTHER -> "RETRYDCN"])
       ELSE repeat_last_command(a)

timer_t5_expired(st) == send_dcn([st EXCEPT !.current_status = "T5_EXPIRED"])

t30_timer_update(st, samples) ==
    LET a == IF st.timer_t0_t1 > 0
             THEN LET d == [st EXCEPT !.timer_t0_t1 = @ - samples]
                  IN IF d.timer_t0_t1 <= 0
                     THEN (IF d.far_end_detected THEN timer_t1_expired(d)
                                                 ELSE timer_t0_expired(d))
                     ELSE d
             ELSE st
        b == IF a.timer_t3 > 0
             THEN LET d == [a EXCEPT !.timer_t3 = @ - samples]
                  IN IF d.timer_t3 <= 0 THEN timer_t3_expired(d) ELSE d
             ELSE a
        c == IF b.timer_t2_t4 > 0
             THEN LET d == [b EXCEPT !.timer_t2_t4 = @ - samples]
                  IN IF d.timer_t2_t4 <= 0
                     THEN (IF d.timer_is_t4 THEN timer_t4_expired(d) ELSE timer_t2_expired(d))
                     ELSE d
             ELSE b
    IN IF c.timer_t5 > 0
       THEN LET d == [c EXCEPT !.timer_t5 = @ - samples]
            IN IF d.timer_t5 <= 0 THEN timer_t5_expired(d) ELSE d
       ELSE c

(***************************************************************************)
(* ECM transmission.  The T.4 image source is the pair t4_pages_left (the  *)
(* pages still to be sent, the current one included) and t4_frames_left    *)
(* (the frames of image data of the current page not yet read).            *)
(***************************************************************************)
check_next_tx_step(st) ==
    IF st.t4_pages_left > 1
    THEN (IF st.local_interrupt_pending THEN "PRI_MPS" ELSE "MPS")
    ELSE (IF st.local_interrupt_pending THEN "PRI_EOP" ELSE "EOP")

\* The image is a whole number of frames: the loop fills n slots and, when
\* the image ends before the buffer is full, stops in slot n, which it has
\* marked empty and numbered; the slots after it keep what they held.
get_partial_ecm_page(st) ==
    LET n == IF st.t4_frames_left < EcmSlots THEN st.t4_frames_left ELSE EcmSlots
    IN [st EXCEPT !.ppr_count = 0,
                  !.ecm_frame_map = Slots,
                  !.ecm_len = [k \in Slots |-> IF k < n THEN MAX_FCD_LEN
                                                ELSE IF k = n THEN -1 ELSE @[k]],
                  !.ecm_octet3 = [k \in Slots |-> IF k <= n THEN k ELSE @[k]],
                  !.ecm_hdr = [k \in Slots |-> IF k <= n THEN <<255, 3>> ELSE @[k]],
                  !.ecm_frames = n,
                  !.ecm_at_page_end = (st.t4_frames_left <= EcmSlots),
                  !.t4_frames_left = @ - n]

\* The result of send_next_ecm_frame is the field ecm_sent: FALSE stands
\* for the -1 returned when there is nothing more to send.
send_next_ecm_frame(st) ==
    LET todo == {i \in Slots : i >= st.ecm_current_frame /\ i < st.ecm_frames
                               /\ st.ecm_len[i] >= 0}
        a == IF st.ecm_current_frame < st.ecm_frames /\ todo = {}
             THEN [st EXCEPT !.ecm_current_frame = st.ecm_frames]
             ELSE st
    IN IF st.ecm_current_frame < st.ecm_frames /\ todo # {}
       THEN LET i == CHOOSE i \in todo : \A j \in todo : i <= j
            IN [send_frame(st, BufFrame(st.ecm_hdr[i], "FCD", 0, st.ecm_len[i], "", <<i>>, {}))
                  EXCEPT !.ecm_current_frame = i + 1,
                         !.ecm_frames_this_burst = @ + 1,
                         !.ecm_sent = TRUE]
       ELSE IF a.ecm_current_frame <= a.ecm_frames + 3
       THEN [send_frame(a, Frame("RCP", 0, FALSE, 3, "", <<>>, {}))
               EXCEPT !.ecm_current_frame = @ + 1,
                      !.short_train = TRUE,
                      !.ecm_sent = TRUE]
       ELSE [a EXCEPT !.ecm_sent = FALSE]

send_first_ecm_frame(st) ==
    send_next_ecm_frame([st EXCEPT !.ecm_current_frame = 0, !.ecm_frames_this_burst = 0,
                                   !.burst = <<>>, !.in_burst = TRUE])

(***************************************************************************)
(* t30_front_end_status.                                                   *)
(***************************************************************************)
start_t2(st) == [st EXCEPT !.timer_t2_t4 = ms_to_samples(DEFAULT_TIMER_T2), !.timer_is_t4 = FALSE]

start_t4(st) == [st EXCEPT !.timer_t2_t4 = ms_to_samples(DEFAULT_TIMER_T4), !.timer_is_t4 = TRUE]

flush_and_step(st) == [send_hdlc_flush(st) EXCEPT !.step = @ + 1]

start_rx_doc(st) ==
    IF st.error_correcting_mode
    THEN set_phase(set_state(st, "F_DOC_ECM"), "C_ECM_RX")
    ELSE set_phase(set_state(st, "F_DOC_NON_ECM"), "C_NON_ECM_RX")

send_dis_dtc_frame(st) ==
    LET b == set_dis_or_dtc(st)
    IN send_frame(b, BufFrame(b.dis_dtc_hdr, "DIS", b.dis_dtc_x, b.dis_dtc_len, "",
                              frame_octets(b.dis_dtc_frame, b.dis_dtc_len), {}))

send_complete(st) ==
    CASE st.state = "ANSWERING" ->
            send_dis_or_dtc_sequence([start_t2(set_phase(st, "B_TX")) EXCEPT !.dis_received = FALSE])
      [] st.state = "R" ->
            (CASE st.step = 0 ->
                    IF st.local_ident
                    THEN send_20digit_msg_frame([st EXCEPT !.step = 1], "CSI")
                    ELSE send_dis_dtc_frame([st EXCEPT !.step = 2])
               [] st.step = 1 -> send_dis_dtc_frame([st EXCEPT !.step = 2])
               [] st.step = 2 -> flush_and_step(st)
               [] OTHER -> start_t4(set_phase(st, "B_RX")))
      [] st.state = "F_CFR" ->
            IF st.step = 0 THEN flush_and_step(st)
            ELSE [start_rx_doc(st) EXCEPT !.next_rx_step = "MPS"]
      [] st.state = "F_FTT" ->
            IF st.step = 0 THEN flush_and_step(st)
            ELSE start_t4(set_phase(st, "B_RX"))
      [] st.state \in {"III_Q_MCF", "III_Q_RTP", "III_Q_RTN", "F_POST_RCP_PPR", "F_POST_RCP_MCF"} ->
            IF st.step = 0 THEN flush_and_step(st)
            ELSE IF st.next_rx_step \in {"MPS", "PRI_MPS"} THEN start_rx_doc(st)
            ELSE disconnect(st)
      [] st.state \in {"II_Q", "IV_PPS_NULL", "IV_PPS_Q", "IV_PPS_RNR", "IV_EOR_RNR",
                       "F_POST_RCP_RNR"} ->
            IF st.step = 0 THEN flush_and_step(st)
            ELSE start_t4(set_phase(st, "D_RX"))
      [] st.state = "B" ->
            set_phase(set_state(phase_e_handler(st), "CALL_FINISHED"), "CALL_FINISHED")
      [] st.state = "C" ->
            IF st.step = 0 THEN flush_and_step(st) ELSE disconnect(st)
      [] st.state = "D" ->
            (CASE st.step = 0 ->
                    IF st.local_sub_address
                    THEN send_20digit_msg_frame([st EXCEPT !.step = 1], "SUB")
                    ELSE IF st.local_ident
                    THEN send_20digit_msg_frame([st EXCEPT !.step = 2], "TSI")
                    ELSE send_dcs_frame([st EXCEPT !.step = 3])
               [] st.step = 1 ->
                    IF st.local_ident
                    THEN send_20digit_msg_frame([st EXCEPT !.step = 2], "TSI")
                    ELSE send_dcs_frame([st EXCEPT !.step = 3])
               [] st.step = 2 -> send_dcs_frame([st EXCEPT !.step = 3])
               [] st.step = 3 -> flush_and_step(st)
               [] OTHER ->
                    IF st.iaf_no_tcf
                    THEN LET a == [st EXCEPT !.retries = 0, !.short_train = TRUE]
                         IN IF a.error_correcting_mode
                            THEN queue_phase(set_state(a, "IV"), "C_ECM_TX")
                            ELSE queue_phase(set_state(a, "I"), "C_NON_ECM_TX")
                    ELSE set_phase(set_state(st, "D_TCF"), "C_NON_ECM_TX"))
      [] st.state = "D_TCF" ->
            set_state(start_t4(set_phase(st, "B_RX")), "D_POST_TCF")
      [] st.state = "I" ->
            LET a == set_state(set_phase(st, "D_TX"), "II_Q")
                b == [a EXCEPT !.next_tx_step = check_next_tx_step(a)]
            IN send_simple_frame(b, b.next_tx_step)
      [] st.state = "IV" ->
            IF st.step = 0
            THEN LET a == send_next_ecm_frame(st)
                 IN IF a.ecm_sent THEN a ELSE flush_and_step(a)
            ELSE LET a == set_phase(st, "D_TX")
                     b == send_pps_frame([a EXCEPT !.next_tx_step = check_next_tx_step(a)])
                 IN IF pps_fcf2(b) = "NULL" THEN set_state(b, "IV_PPS_NULL")
                                            ELSE set_state(b, "IV_PPS_Q")
      [] OTHER -> st

(***************************************************************************)
(* Received control frames.                                                *)
(***************************************************************************)
\* Octet i (from 3) of a received DIS, DTC or DCS, zero beyond its length.
Oct(fr, i) == IF i < fr.len /\ i - 2 <= Len(fr.b) THEN fr.b[i - 2] ELSE 0

\* A variant that gives the call up on a non-final frame it does not expect.
unexpected_non_final_frame_dcn(st) == send_dcn([st EXCEPT !.current_status = "UNEXPECTED"])

unexpected_non_final_frame(st) == [st EXCEPT !.current_status = "UNEXPECTED"]

\* A variant that sets the status and sends nothing.
unexpected_final_frame_quiet(st) == [st EXCEPT !.current_status = "UNEXPECTED"]

unexpected_final_frame(st) == send_dcn([st EXCEPT !.current_status = "UNEXPECTED"])

unexpected_frame_length(st) == send_dcn([st EXCEPT !.current_status = "UNEXPECTED"])

unexpected_frame(st) ==
    IF st.state \in {"F_DOC_ECM", "F_DOC_NON_ECM"}
    THEN [st EXCEPT !.current_status = "INVALCMDRX"]
    ELSE st

\* The row of translate_min_scan_time for the standard resolution, in the
\* codes of T.30 (20ms is 0, 5ms 1, 10ms 2, 40ms 4 and 0ms 7).
translate_min_scan_time ==
    <<<<0, 1, 2, 0, 4, 4, 2, 7>>,
      <<0, 1, 2, 2, 4, 0, 1, 7>>,
      <<2, 1, 1, 1, 0, 2, 1, 7>>>>

\* The image sent is of standard resolution, so the code is the row above.
set_min_scan_time_code(st, fr) ==
    LET min_bits_field == IF "NO_FILL_BITS" \in st.iaf \/ fr.len <= 5
                          THEN T30_MIN_SCAN_0MS
                          ELSE (Oct(fr, 5) \div 16) % 8
        row(r) == [st EXCEPT !.min_scan_time_code =
                                 translate_min_scan_time[r][min_bits_field + 1],
                             !.rc = 0]
        refused == [st EXCEPT !.current_status = "NORESSUPPORT", !.rc = -1]
    IN CASE st.y_resolution = "SUPERFINE" ->
               IF fr.len > 8 /\ test_octet_bit(Oct(fr, 8), 0)
               THEN row(IF test_octet_bit(Oct(fr, 8), 5) THEN 3 ELSE 2)
               ELSE refused
         [] st.y_resolution = "FINE" ->
               IF fr.len > 4 /\ test_octet_bit(Oct(fr, 4), 6) THEN row(2) ELSE refused
         [] OTHER -> row(1)

\* The result is in rc: 0, or -1 for a failure.
start_sending_document(st, fr) ==
    IF ~st.tx_file THEN [st EXCEPT !.rc = -1]
    ELSE IF ~st.t4_tx_ok THEN [st EXCEPT !.current_status = "FILEERROR", !.rc = -1]
    ELSE LET m == set_min_scan_time_code([st EXCEPT !.x_resolution = st.t4_x_resolution,
                                                    !.y_resolution = st.t4_y_resolution],
                                         fr)
             a == [m EXCEPT !.t4_pages_left = st.t4_pages,
                            !.t4_frames_left = st.t4_page_frames,
                            !.image_width = st.t4_image_width,
                            !.ecm_page = 0, !.ecm_block = 0, !.rc = 0]
         IN IF m.rc # 0 THEN m
            ELSE IF a.error_correcting_mode THEN get_partial_ecm_page(a) ELSE a

\* An image of standard resolution and A4 width sets no resolution or width
\* bit and cannot fail for them.
\* The page widths of T.4 by the horizontal resolution they belong to.
WidthsOf(res) == {res \o "_A4", res \o "_B4", res \o "_A3"}

WidthRes == {"R8", "300", "R16", "600", "1200"}

WidthsOfSize(size) == {r \o size : r \in WidthRes}

\* The bit of the DCS for the resolution of the page, or the refusal of a
\* resolution that is not among supported_resolutions.
dcs_resolution(st) ==
    LET x == st.x_resolution
        y == st.y_resolution
        no == [bad |-> "NORESSUPPORT", bits |-> {}]
        ok(bits) == [bad |-> "OK", bits |-> bits]
        local(cap, bit) == IF cap \in st.supported_resolutions THEN ok({bit}) ELSE no
    IN CASE y = "1200" -> (CASE x = "600" -> local("600_1200", 109)
                             [] x = "1200" -> local("1200_1200", 106)
                             [] OTHER -> no)
         [] y = "800" -> (IF x = "R16" THEN local("400_800", 108) ELSE no)
         [] y = "600" -> (CASE x = "300" -> local("300_600", 107)
                            [] x = "600" -> local("600_600", 105)
                            [] OTHER -> no)
         [] y = "SUPERFINE" ->
               IF "SUPERFINE" \notin st.supported_resolutions THEN no
               ELSE (CASE x = "R8" -> ok({41})
                       [] x = "R16" -> ok({43})
                       [] OTHER -> no)
         [] y = "300" -> (IF x = "300" THEN local("300_300", 42) ELSE no)
         [] y = "FINE" ->
               IF "FINE" \notin st.supported_resolutions THEN no
               ELSE (IF x = "R8" THEN ok({15}) ELSE no)
         [] OTHER -> (IF x = "R8" THEN ok({}) ELSE no)

\* The bit of the DCS for the width of the page.  The widths beyond A4 are
\* tested against octet 5 of s->dis_dtc_frame, the frame the engine built
\* for itself, and against supported_image_sizes.
dcs_width(st) ==
    LET w == st.image_width
        own == st.dis_dtc_frame[5] % 4
    IN CASE w \in WidthsOfSize("_A4") -> [bad |-> "OK", bits |-> {}]
         [] w \in WidthsOfSize("_B4") ->
               IF own < 1 THEN [bad |-> "NOSIZESUPPORT", bits |-> {}]
               ELSE IF "255MM" \notin st.supported_image_sizes
               THEN [bad |-> "BADTIFF", bits |-> {}]
               ELSE [bad |-> "OK", bits |-> {17}]
         [] w \in WidthsOfSize("_A3") ->
               IF own < 2 THEN [bad |-> "NOSIZESUPPORT", bits |-> {}]
               ELSE IF "303MM" \notin st.supported_image_sizes
               THEN [bad |-> "BADTIFF", bits |-> {}]
               ELSE [bad |-> "OK", bits |-> {18}]
         [] OTHER -> [bad |-> "BADTIFF", bits |-> {}]

\* The test of the width against the resolutions of the received frame.
dcs_width_resolution(st, dis) ==
    LET w == st.image_width
    IN CASE w \in WidthsOf("R8") -> "OK"
         [] w \in WidthsOf("300") ->
               IF ~test_frame_bit(dis, 42) /\ ~test_frame_bit(dis, 107)
               THEN "NOSIZESUPPORT" ELSE "OK"
         [] w \in WidthsOf("R16") ->
               IF ~test_frame_bit(dis, 43) THEN "NOSIZESUPPORT" ELSE "OK"
         [] w \in WidthsOf("600") ->
               IF ~test_frame_bit(dis, 105) /\ ~test_frame_bit(dis, 109)
               THEN "NOSIZESUPPORT" ELSE "OK"
         [] w \in WidthsOf("1200") ->
               IF ~test_frame_bit(dis, 106) THEN "NOSIZESUPPORT" ELSE "OK"
         [] OTHER -> "BADTIFF"

build_dcs(st, fr) ==
    IF fr.len < MIN_DIS_DCS_LEN
    THEN [st EXCEPT !.current_status = "INCOMPATIBLE", !.rc = -1]
    ELSE LET z == [i \in 3..18 |-> 0]
             rate == [z EXCEPT ![4] = fallback_sequence[st.current_fallback].dcs_code]
             scan == [rate EXCEPT ![5] = @ + 16*(IF st.line_encoding = "T6"
                                                 THEN T30_MIN_SCAN_0MS
                                                 ELSE st.min_scan_time_code % 8)]
             dis == [i \in 3..18 |-> Oct(fr, i)]
             first == (IF st.line_encoding = "T6" THEN {31} ELSE {})
                      \cup (IF st.line_encoding = "T4_2D" THEN {16} ELSE {})
                      \cup {10}
             res == dcs_resolution(st)
             wid == dcs_width(st)
             wres == dcs_width_resolution(st, dis)
             bits == first \cup res.bits \cup wid.bits
                     \cup (IF "FLOW_CONTROL" \in st.iaf /\ test_frame_bit(dis, 121)
                           THEN {121} ELSE {})
                     \cup (IF "CONTINUOUS_FLOW" \in st.iaf /\ test_frame_bit(dis, 123)
                           THEN {123} ELSE {})
                     \cup (IF test_frame_bit([i \in 3..18 |-> Oct(fr, i)], 20) THEN {20}
                           ELSE IF test_frame_bit([i \in 3..18 |-> Oct(fr, i)], 19) THEN {19}
                           ELSE {})
                     \cup (IF st.error_correcting_mode THEN {27} ELSE {})
             begun(bs) == [st EXCEPT !.dcs_hdr = <<255, 19>>,
                                     !.dcs_x = IF st.dis_received THEN 1 ELSE 0,
                                     !.dcs_frame = set_frame_bits(scan, bs)]
             refused(bs, why) == [begun(bs) EXCEPT !.current_status = why, !.rc = -1]
         IN CASE res.bad # "OK" -> refused(first, res.bad)
              [] wid.bad # "OK" -> refused(first \cup res.bits, wid.bad)
              [] wres # "OK" -> refused(first \cup res.bits \cup wid.bits, wres)
              [] OTHER -> [begun(bits) EXCEPT !.dcs_len = 19, !.rc = 0]

restart_sending_document(st) ==
    send_dcs_sequence([st EXCEPT !.retries = 0, !.ecm_block = 0,
                                 !.t4_frames_left = st.t4_page_frames])

process_rx_dis_dtc(st, fr) ==
    IF fr.len < MIN_DIS_DCS_LEN THEN st
    ELSE LET a == [st EXCEPT !.dis_received = IF fr.x = 0 THEN TRUE ELSE @,
                             !.error_correcting_mode =
                                 st.ecm_allowed /\ test_octet_bit(Oct(fr, 6), 2),
                             !.line_encoding =
                                 IF st.ecm_allowed /\ test_octet_bit(Oct(fr, 6), 2)
                                    /\ "T6" \in st.supported_compressions
                                    /\ test_octet_bit(Oct(fr, 6), 6)
                                 THEN "T6"
                                 ELSE IF "T4_2D" \in st.supported_compressions
                                         /\ test_octet_bit(Oct(fr, 4), 7)
                                 THEN "T4_2D"
                                 ELSE "T4_1D"]
             code == ((Oct(fr, 4) \div 4) % 16) * 4
             v17 == code = 44 /\ "V17" \in st.supported_modems
             v29 == ~v17 /\ code \in {44, 12} /\ "V29" \in st.supported_modems
             v27 == ~v17 /\ ~v29 /\ code \in {44, 12, 8}
             v29only == code = 4 /\ "V29" \in st.supported_modems
         IN IF ~(v17 \/ v29 \/ v27 \/ v29only \/ code = 0)
            THEN [a EXCEPT !.current_status = "INCOMPATIBLE"]
            ELSE LET b == CASE v17 -> [a EXCEPT !.current_permitted_modems = {"V17", "V29", "V27TER"},
                                                !.current_fallback = T30_V17_FALLBACK_START]
                            [] v29 -> [a EXCEPT !.current_permitted_modems = {"V29", "V27TER"},
                                                !.current_fallback = T30_V29_FALLBACK_START]
                            [] v27 -> [a EXCEPT !.current_permitted_modems = {"V27TER"},
                                                !.current_fallback = T30_V27TER_FALLBACK_START]
                            [] v29only -> [a EXCEPT !.current_permitted_modems = {"V29"},
                                                    !.current_fallback = T30_V29_FALLBACK_START]
                            [] OTHER -> [a EXCEPT !.current_permitted_modems = {"V27TER"},
                                                  !.current_fallback = T30_V27TER_FALLBACK_START + 1]
                     c == queue_phase(b, "B_TX")
                 IN IF c.tx_file
                    THEN LET d == IF ~test_octet_bit(Oct(fr, 4), 1)
                                  THEN send_dcn([c EXCEPT !.current_status = "RX_INCAPABLE"])
                                  ELSE c
                             e == start_sending_document(d, fr)
                             f == build_dcs(e, fr)
                         IN IF e.rc # 0 THEN send_dcn(e)
                            ELSE IF f.rc # 0 THEN send_dcn(f)
                            ELSE send_dcs_sequence([f EXCEPT !.retries = 0])
                    ELSE IF c.rx_file
                    THEN IF ~test_octet_bit(Oct(fr, 4), 0)
                         THEN send_dcn([c EXCEPT !.current_status = "TX_INCAPABLE"])
                         ELSE send_dis_or_dtc_sequence(
                                  [set_dis_or_dtc([start_receiving_document(c) EXCEPT
                                                       !.dis_received = TRUE])
                                     EXCEPT !.retries = 0])
                    ELSE send_dcn(c)

find_fallback_entry(dcs_code) ==
    LET hits == {i \in 0..7 : fallback_sequence[i].dcs_code = dcs_code}
    IN IF hits = {} THEN -1 ELSE CHOOSE i \in hits : \A j \in hits : i <= j

process_rx_dcs(st, fr) ==
    IF fr.len < MIN_DIS_DCS_LEN THEN st
    ELSE LET a == [st EXCEPT !.current_fallback =
                                 find_fallback_entry(((Oct(fr, 4) \div 4) % 16) * 4)]
             b == [a EXCEPT !.error_correcting_mode = test_octet_bit(Oct(fr, 6), 2)]
         IN IF a.current_fallback < 0 THEN a
            ELSE IF ~b.rx_file \/ (~b.in_message /\ ~b.t4_rx_ok)
            THEN send_dcn([b EXCEPT !.current_status = "FILEERROR"])
            ELSE IF ~b.iaf_no_tcf
            THEN set_phase(set_state(b, "F_TCF"), "C_NON_ECM_RX")
            ELSE b

(***************************************************************************)
(* ECM: the partial page buffer of the receiver, PPS and PPR.              *)
(***************************************************************************)
rx_start_page(st) ==
    [st EXCEPT !.ecm_len = [k \in Slots |-> -1],
               !.ecm_page = @ + 1,
               !.ecm_block = 0,
               !.ecm_frames = -1,
               !.ecm_frames_this_burst = 0]

t30_ecm_commit_partial_page(st) ==
    [st EXCEPT !.ecm_len = [k \in Slots |-> -1],
               !.ecm_frames = -1,
               !.committed = TRUE]

send_ppr_frame(st) ==
    send_frame(st, Frame("PPR", IF st.dis_received THEN 1 ELSE 0, TRUE, PPR_FRAME_LEN, "",
                         <<>>, st.ecm_frame_map))

send_deferred_pps_response(st) ==
    LET a == queue_phase(st, "D_TX")
    IN IF a.ecm_first_bad_frame >= a.ecm_frames
       THEN LET b == IF a.last_pps_fcf2 = "NULL"
                     THEN t30_ecm_commit_partial_page(a)
                     ELSE rx_start_page(t30_ecm_commit_partial_page(
                              [a EXCEPT !.next_rx_step = a.last_pps_fcf2]))
            IN send_simple_frame(set_state(b, "F_POST_RCP_MCF"), "MCF")
       ELSE send_ppr_frame(set_state(a, "F_POST_RCP_PPR"))

PpsFcf2s == {"NULL", "EOP", "EOM", "MPS", "PRI_EOP", "PRI_EOM", "PRI_MPS"}

\* A PPS: octet 3 is fcf2 (with its low bit in b[1]), octets 4 to 6 the
\* page, block and frame counts, b[2] to b[4].
process_rx_pps(st, fr) ==
    IF fr.len < MIN_PPS_LEN THEN st
    ELSE LET frames == fr.b[4] + 1
             missing == {k \in Slots : st.ecm_len[k] < 0}
             a == [st EXCEPT !.last_pps_fcf2 = fr.fcf2,
                             !.ecm_frames = IF @ < 0 THEN frames ELSE @,
                             !.ecm_frame_map = missing,
                             !.ecm_first_bad_frame =
                                 IF missing = {} THEN EcmSlots
                                 ELSE CHOOSE k \in missing : \A j \in missing : k <= j]
         IN IF fr.fcf2 \in PpsFcf2s
            THEN IF a.receiver_not_ready_count > 0
                 THEN send_simple_frame(
                          set_state([queue_phase(a, "D_TX") EXCEPT
                                         !.receiver_not_ready_count = @ - 1],
                                    "F_POST_RCP_RNR"), "RNR")
                 ELSE send_deferred_pps_response(a)
            ELSE unexpected_final_frame(a)

\* A PPR: map holds the slots whose bit is set.  A slot whose bit is clear
\* is ticked off; one whose bit is set is left as it is.
process_rx_ppr_keep(st, fr) ==
    LET a == [st EXCEPT !.ppr_count = @ + 1]
    IN IF a.ppr_count >= 4
       THEN send_simple_frame(set_state(a, "IV_CTC"), "CTC")
       ELSE IF fr.len # PPR_FRAME_LEN THEN a
       ELSE send_first_ecm_frame(queue_phase(set_state(a, "IV"), "C_ECM_TX"))

process_rx_ppr(st, fr) ==
    LET a == [st EXCEPT !.ppr_count = @ + 1]
    IN IF a.ppr_count >= 4
       THEN send_simple_frame(set_state(a, "IV_CTC"), "CTC")
       ELSE IF fr.len # PPR_FRAME_LEN THEN a
       ELSE send_first_ecm_frame(
                queue_phase(set_state([a EXCEPT
                    !.ecm_len = [k \in Slots |-> IF k \in fr.map THEN @[k] ELSE -1],
                    !.ecm_frame_map = {k \in @ : \E j \in fr.map : j \div 8 = k \div 8}],
                                      "IV"), "C_ECM_TX"))

\* An FCD: octet 3, b[1], is the frame's number in the partial page.  The
\* octets from 4 on are copied to the start of the slot, so that octet 3 of
\* the slot becomes octet 7 of the frame, b[2], when the frame has one.
process_rx_fcd(st, fr) ==
    IF st.state = "F_DOC_ECM"
    THEN IF fr.len <= MAX_FCD_LEN
         THEN [st EXCEPT !.ecm_len[fr.b[1]] = fr.len - 4,
                         !.ecm_octet3[fr.b[1]] = IF fr.len > 7 THEN fr.b[2] ELSE @,
                         !.short_train = TRUE]
         ELSE unexpected_frame_length(st)
    ELSE unexpected_non_final_frame(st)

process_rx_rcp(st) ==
    CASE st.state = "F_DOC_ECM" -> queue_phase(set_state(st, "F_POST_DOC_ECM"), "D_RX")
      [] st.state = "F_POST_DOC_ECM" -> st
      [] OTHER -> unexpected_non_final_frame(st)

process_rx_fnv(st) == unexpected_final_frame(st)

(***************************************************************************)
(* The handlers of a final frame, one for each state.                      *)
(***************************************************************************)
\* What every handler does with CRP, with FNV and with what it does not know.
process_rx_other(st, fr) ==
    CASE fr.fcf = "CRP" -> repeat_last_command(st)
      [] fr.fcf = "FNV" -> process_rx_fnv(st)
      [] OTHER -> unexpected_final_frame(st)

start_t3(st) ==
    IF st.phase_d_handler THEN [st EXCEPT !.timer_t3 = ms_to_samples(DEFAULT_TIMER_T3)] ELSE st

process_state_answering(st, fr) ==
    CASE fr.fcf = "DIS" -> process_rx_dis_dtc(st, fr)
      [] fr.fcf = "DCS" -> process_rx_dcs(st, fr)
      [] fr.fcf = "DCN" -> disconnect([st EXCEPT !.current_status = "GOTDCNTX"])
      [] OTHER -> unexpected_final_frame(st)

process_state_b(st, fr) ==
    IF fr.fcf = "DCN" THEN st ELSE process_rx_other(st, fr)

process_state_c(st, fr) ==
    IF fr.fcf = "DCN" THEN st ELSE process_rx_other(st, fr)

process_state_d(st, fr) ==
    IF fr.fcf = "DCN" THEN disconnect([st EXCEPT !.current_status = "BADDCSTX"])
    ELSE process_rx_other(st, fr)

process_state_d_tcf(st, fr) ==
    IF fr.fcf = "DCN" THEN disconnect([st EXCEPT !.current_status = "BADDCSTX"])
    ELSE process_rx_other(st, fr)

\* The index returned is the new current_fallback, left at the terminator
\* (and -1 returned, here rc) when no later entry is permitted.
step_fallback_entry_next(st) ==
    IF st.current_fallback + 1 > 7
    THEN [st EXCEPT !.current_fallback = 8, !.rc = -1]
    ELSE [st EXCEPT !.current_fallback = @ + 1, !.rc = st.current_fallback + 1]

step_fallback_entry(st) ==
    LET later == {i \in (st.current_fallback + 1)..7 :
                     fallback_sequence[i].which \in st.current_permitted_modems}
    IN IF later = {}
       THEN [st EXCEPT !.current_fallback = 8, !.rc = -1]
       ELSE LET n == CHOOSE i \in later : \A j \in later : i <= j
            IN [st EXCEPT !.current_fallback = n, !.rc = n]

process_state_d_post_tcf(st, fr) ==
    CASE fr.fcf = "CFR" ->
            LET a == [st EXCEPT !.retries = 0, !.short_train = TRUE]
            IN IF a.error_correcting_mode
               THEN send_first_ecm_frame(queue_phase(set_state(a, "IV"), "C_ECM_TX"))
               ELSE queue_phase(set_state(a, "I"), "C_NON_ECM_TX")
      [] fr.fcf = "FTT" ->
            LET a == step_fallback_entry([st EXCEPT !.retries = 0, !.short_train = FALSE])
            IN IF a.rc < 0
               THEN send_dcn([a EXCEPT !.current_fallback = 0,
                                       !.current_status = "CANNOT_TRAIN"])
               ELSE send_dcs_sequence(queue_phase(a, "B_TX"))
      [] fr.fcf = "DIS" ->
            LET a == [st EXCEPT !.retries = @ + 1]
            IN IF a.retries > MAX_MESSAGE_TRIES
               THEN send_dcn([a EXCEPT !.current_status = "RETRYDCN"])
               ELSE send_dcs_sequence(queue_phase(a, "B_TX"))
      [] fr.fcf = "DCN" -> disconnect([st EXCEPT !.current_status = "BADDCSTX"])
      [] OTHER -> process_rx_other(st, fr)

process_state_f_tcf(st, fr) == process_rx_other(st, fr)

process_state_f_cfr(st, fr) == process_rx_other(st, fr)

process_state_f_ftt(st, fr) == process_rx_other(st, fr)

process_state_f_doc_non_ecm(st, fr) ==
    CASE fr.fcf = "DIS" -> process_rx_dis_dtc(st, fr)
      [] fr.fcf = "DCS" -> process_rx_dcs(st, fr)
      [] fr.fcf \in {"MPS", "EOP"} ->
            send_simple_frame(set_state(queue_phase([st EXCEPT !.next_rx_step = fr.fcf], "D_TX"),
                                        "III_Q_RTN"), "RTN")
      [] fr.fcf = "EOM" ->
            send_simple_frame(set_state(queue_phase([st EXCEPT !.next_rx_step = fr.fcf], "B_TX"),
                                        "III_Q_RTN"), "RTN")
      [] fr.fcf \in {"PRI_MPS", "PRI_EOM", "PRI_EOP"} ->
            set_state([start_t3(st) EXCEPT !.next_rx_step = fr.fcf], "III_Q_RTN")
      [] fr.fcf = "DCN" -> disconnect([st EXCEPT !.current_status = "DCNDATARX"])
      [] OTHER -> process_rx_other(st, fr)

\* A chunk of the trainability test: one and a half seconds at 9600 bit/s.
ChunkLens == {1800}

\* A variant whose two limits belong to the better class.
copy_quality_inclusive(st) ==
    IF st.t4_stats.bad_rows*50 <= st.t4_stats.length THEN "GOOD"
    ELSE IF st.t4_stats.bad_rows*20 <= st.t4_stats.length THEN "POOR"
    ELSE "BAD"

copy_quality(st) ==
    IF st.t4_stats.bad_rows*50 < st.t4_stats.length THEN "GOOD"
    ELSE IF st.t4_stats.bad_rows*20 < st.t4_stats.length THEN "POOR"
    ELSE "BAD"

\* The state a page of each quality is answered from, and the answer.
quality_state(q) ==
    CASE q = "GOOD" -> "III_Q_MCF" [] q = "POOR" -> "III_Q_RTP" [] OTHER -> "III_Q_RTN"

\* A variant that answers every page with RTN.
quality_frame_rtn(q) == "RTN"

quality_frame(q) ==
    CASE q = "GOOD" -> "MCF" [] q = "POOR" -> "RTP" [] OTHER -> "RTN"

process_state_f_post_doc_non_ecm(st, fr) ==
    LET q == copy_quality(st)
    IN CASE fr.fcf \in {"MPS", "EOM"} ->
               LET a == queue_phase([st EXCEPT !.next_rx_step = fr.fcf],
                                    IF fr.fcf = "MPS" THEN "D_TX" ELSE "B_TX")
               IN send_simple_frame(set_state(rx_start_page(a), quality_state(q)),
                                    quality_frame(q))
         [] fr.fcf = "EOP" ->
               LET a == queue_phase([st EXCEPT !.next_rx_step = fr.fcf], "D_TX")
                   b == IF q = "BAD" THEN a ELSE [a EXCEPT !.in_message = FALSE]
               IN send_simple_frame(set_state(b, quality_state(q)), quality_frame(q))
         [] fr.fcf \in {"PRI_MPS", "PRI_EOM", "PRI_EOP"} ->
               LET a == [start_t3(st) EXCEPT !.next_rx_step = fr.fcf]
                   b == IF q = "BAD" THEN a ELSE [a EXCEPT !.in_message = FALSE]
               IN set_state(b, quality_state(q))
         [] fr.fcf = "DCN" -> disconnect([st EXCEPT !.current_status = "DCNFAXRX"])
         [] OTHER -> process_rx_other(st, fr)

\* An EOR: octet 3 is fcf2.
process_state_f_doc_ecm(st, fr) ==
    CASE fr.fcf = "DIS" -> process_rx_dis_dtc(st, fr)
      [] fr.fcf = "DCS" -> process_rx_dcs(st, fr)
      [] fr.fcf = "RCP" ->
            IF st.state = "F_DOC_ECM"
            THEN queue_phase(set_state(st, "F_POST_DOC_ECM"), "D_RX")
            ELSE st
      [] fr.fcf = "EOR" ->
            IF fr.len # 4 THEN unexpected_frame_length(st)
            ELSE IF fr.fcf2 = "NULL" THEN st
            ELSE IF fr.fcf2 \in PpsFcf2s
            THEN send_simple_frame([st EXCEPT !.next_rx_step = fr.fcf2], "ERR")
            ELSE unexpected_final_frame(st)
      [] fr.fcf = "PPS" -> process_rx_pps(st, fr)
      [] fr.fcf = "CTC" -> [send_simple_frame(st, "CTR") EXCEPT !.short_train = FALSE]
      [] fr.fcf = "RR" -> st
      [] fr.fcf = "DCN" -> disconnect([st EXCEPT !.current_status = "DCNDATARX"])
      [] OTHER -> process_rx_other(st, fr)

process_state_f_post_rcp_mcf(st, fr) == process_rx_other(st, fr)

process_state_f_post_rcp_ppr(st, fr) == process_rx_other(st, fr)

\* A variant that answers RR with RNR without counting down.
process_state_f_post_rcp_rnr_hold(st, fr) ==
    IF fr.fcf = "RR"
    THEN IF st.receiver_not_ready_count > 0
         THEN send_simple_frame(set_state(queue_phase(st, "D_TX"), "F_POST_RCP_RNR"), "RNR")
         ELSE send_deferred_pps_response(st)
    ELSE process_rx_other(st, fr)

process_state_f_post_rcp_rnr(st, fr) ==
    IF fr.fcf = "RR"
    THEN IF st.receiver_not_ready_count > 0
         THEN send_simple_frame(
                  set_state(queue_phase([st EXCEPT !.receiver_not_ready_count = @ - 1], "D_TX"),
                            "F_POST_RCP_RNR"), "RNR")
         ELSE send_deferred_pps_response(st)
    ELSE process_rx_other(st, fr)

process_state_r(st, fr) ==
    CASE fr.fcf = "DIS" -> process_rx_dis_dtc(st, fr)
      [] fr.fcf = "DCS" -> process_rx_dcs(st, fr)
      [] fr.fcf = "DCN" -> disconnect([st EXCEPT !.current_status = "GOTDCNTX"])
      [] OTHER -> process_rx_other(st, fr)

process_state_t(st, fr) ==
    CASE fr.fcf = "DIS" -> process_rx_dis_dtc(st, fr)
      [] fr.fcf = "DCN" -> disconnect([st EXCEPT !.current_status = "DCNWHYRX"])
      [] fr.fcf \in {"CRP", "FNV"} -> process_rx_other(st, fr)
      [] OTHER -> [unexpected_final_frame(st) EXCEPT !.current_status = "NODISTX"]

process_state_i(st, fr) == process_rx_other(st, fr)

process_state_ii(st, fr) == process_rx_other(st, fr)

\* The T.4 source: ending a page leaves one page fewer, starting the next
\* one fails (rc # 0) when no page is left.
t4_tx_end_page(st) == [st EXCEPT !.t4_pages_left = Max({@ - 1, 0})]

t4_tx_start_page(st) ==
    IF st.t4_pages_left = 0 THEN [st EXCEPT !.rc = -1]
    ELSE [st EXCEPT !.t4_frames_left = st.t4_page_frames, !.rc = 0]

\* PIP and PIN in phase D.
process_rx_pip_pin(st) ==
    LET a == [st EXCEPT !.retries = 0]
    IN IF a.phase_d_handler
       THEN [a EXCEPT !.timer_t3 = ms_to_samples(DEFAULT_TIMER_T3)]
       ELSE a

process_state_ii_q(st, fr) ==
    LET a == [st EXCEPT !.retries = 0]
        mps == st.next_tx_step \in {"MPS", "PRI_MPS"}
        eom == st.next_tx_step \in {"EOM", "PRI_EOM"}
        eop == st.next_tx_step \in {"EOP", "PRI_EOP"}
    IN CASE fr.fcf = "MCF" ->
               (CASE mps -> LET b == t4_tx_start_page(t4_tx_end_page(a))
                            IN IF b.rc # 0 THEN b
                               ELSE queue_phase(set_state(b, "I"), "C_NON_ECM_TX")
                  [] eom -> set_state(t4_tx_end_page(a), "R")
                  [] eop -> send_dcn(t4_tx_end_page(a))
                  [] OTHER -> st)
         [] fr.fcf = "RTP" ->
               (CASE mps -> restart_sending_document(queue_phase(a, "B_TX"))
                  [] eom -> set_state(a, "R")
                  [] eop -> send_dcn([a EXCEPT !.current_status = "INVALRSPTX"])
                  [] OTHER -> st)
         [] fr.fcf = "RTN" ->
               (CASE mps -> restart_sending_document(queue_phase(a, "B_TX"))
                  [] eom \/ eop -> send_dcn([a EXCEPT !.current_status = "INVALRSPTX"])
                  [] OTHER -> st)
         [] fr.fcf \in {"PIP", "PIN"} -> process_rx_pip_pin(st)
         [] fr.fcf = "DCN" ->
               disconnect([st EXCEPT !.current_status =
                               IF mps \/ eom THEN "DCNPHDRX" ELSE "BADPGTX"])
         [] OTHER -> process_rx_other(st, fr)

process_state_iii_q_mcf(st, fr) ==
    IF fr.fcf \in {"MPS", "EOM", "EOP"} THEN send_simple_frame(st, "MCF")
    ELSE process_rx_other(st, fr)

process_state_iii_q_rtp(st, fr) ==
    IF fr.fcf \in {"MPS", "EOM", "EOP"} THEN send_simple_frame(st, "RTP")
    ELSE process_rx_other(st, fr)

process_state_iii_q_rtn(st, fr) ==
    CASE fr.fcf \in {"MPS", "EOM", "EOP"} -> send_simple_frame(st, "RTN")
      [] fr.fcf = "DCN" -> disconnect([st EXCEPT !.current_status = "DCNNORTNRX"])
      [] OTHER -> process_rx_other(st, fr)

process_state_iv(st, fr) == process_rx_other(st, fr)

\* An MCF for a partial page of ECM image data.
process_rx_ecm_mcf(st) ==
    LET a == [st EXCEPT !.retries = 0, !.timer_t5 = 0]
        g == get_partial_ecm_page(a)
        mps == a.next_tx_step \in {"MPS", "PRI_MPS"}
        eom == a.next_tx_step \in {"EOM", "PRI_EOM"}
        eop == a.next_tx_step \in {"EOP", "PRI_EOP"}
    IN IF ~a.ecm_at_page_end /\ g.ecm_frames > 0
       THEN send_first_ecm_frame(
                queue_phase(set_state([g EXCEPT !.ecm_block = @ + 1], "IV"), "C_ECM_TX"))
       ELSE LET b == IF a.ecm_at_page_end THEN a ELSE g
            IN CASE mps ->
                      LET c == t4_tx_start_page(t4_tx_end_page(b))
                          d == get_partial_ecm_page([c EXCEPT !.ecm_page = @ + 1,
                                                              !.ecm_block = 0])
                      IN IF c.rc # 0 THEN c
                         ELSE IF d.ecm_frames > 0
                         THEN send_first_ecm_frame(
                                  queue_phase(set_state(d, "IV"), "C_ECM_TX"))
                         ELSE d
                 [] eom -> set_state(t4_tx_end_page(b), "R")
                 [] eop -> send_dcn(t4_tx_end_page(b))
                 [] OTHER -> b

\* An RNR in phase D of an ECM page: answer RR, under T5.
process_rx_rnr(st, next) ==
    LET a == IF st.timer_t5 = 0
             THEN [st EXCEPT !.timer_t5 = ms_to_samples(DEFAULT_TIMER_T5)]
             ELSE st
    IN send_simple_frame(queue_phase(set_state(a, next), "D_TX"), "RR")

process_state_iv_pps_null(st, fr) ==
    CASE fr.fcf = "MCF" -> process_rx_ecm_mcf(st)
      [] fr.fcf = "PPR" -> process_rx_ppr(st, fr)
      [] fr.fcf = "RNR" -> process_rx_rnr(st, "IV_PPS_RNR")
      [] fr.fcf = "DCN" -> disconnect([st EXCEPT !.current_status = "BADPGTX"])
      [] fr.fcf \in {"CRP", "FNV"} -> process_rx_other(st, fr)
      [] OTHER -> [unexpected_final_frame(st) EXCEPT !.current_status = "ECMPHDTX"]

process_state_iv_pps_q(st, fr) ==
    CASE fr.fcf = "MCF" -> process_rx_ecm_mcf(st)
      [] fr.fcf = "RNR" -> process_rx_rnr(st, "IV_PPS_RNR")
      [] fr.fcf \in {"PIP", "PIN"} -> process_rx_pip_pin(st)
      [] fr.fcf = "PPR" -> process_rx_ppr(st, fr)
      [] fr.fcf = "DCN" -> disconnect([st EXCEPT !.current_status = "BADPGTX"])
      [] fr.fcf \in {"CRP", "FNV"} -> process_rx_other(st, fr)
      [] OTHER -> [unexpected_final_frame(st) EXCEPT !.current_status = "ECMPHDTX"]

process_state_iv_pps_rnr(st, fr) ==
    CASE fr.fcf = "MCF" -> process_rx_ecm_mcf(st)
      [] fr.fcf = "RNR" -> process_rx_rnr(st, "IV_PPS_RNR")
      [] fr.fcf \in {"PIP", "PIN"} -> process_rx_pip_pin(st)
      [] fr.fcf = "DCN" -> disconnect([st EXCEPT !.current_status = "DCNRRDRX"])
      [] OTHER -> process_rx_other(st, fr)

process_state_iv_ctc(st, fr) ==
    IF fr.fcf = "CTR" THEN [st EXCEPT !.short_train = FALSE]
    ELSE process_rx_other(st, fr)

process_state_iv_eor(st, fr) ==
    CASE fr.fcf = "RNR" -> process_rx_rnr(st, "IV_EOR_RNR")
      [] fr.fcf = "PIN" -> process_rx_pip_pin(st)
      [] fr.fcf = "ERR" -> send_dcn([st EXCEPT !.timer_t5 = 0])
      [] OTHER -> process_rx_other(st, fr)

process_state_iv_eor_rnr(st, fr) ==
    CASE fr.fcf = "RNR" -> process_rx_rnr(st, "IV_EOR_RNR")
      [] fr.fcf = "PIN" -> process_rx_pip_pin(st)
      [] fr.fcf = "ERR" -> send_dcn([st EXCEPT !.timer_t5 = 0])
      [] fr.fcf = "DCN" -> disconnect([st EXCEPT !.current_status = "DCNRRDRX"])
      [] OTHER -> process_rx_other(st, fr)

process_state_call_finished(st, fr) == st

(***************************************************************************)
(* t30_hdlc_accept: a frame, or a special condition of the receiver.       *)
(***************************************************************************)
process_final_frame(st, fr) ==
    CASE st.state = "ANSWERING" -> process_state_answering(st, fr)
      [] st.state = "B" -> process_state_b(st, fr)
      [] st.state = "C" -> process_state_c(st, fr)
      [] st.state = "D" -> process_state_d(st, fr)
      [] st.state = "D_TCF" -> process_state_d_tcf(st, fr)
      [] st.state = "D_POST_TCF" -> process_state_d_post_tcf(st, fr)
      [] st.state = "F_TCF" -> process_state_f_tcf(st, fr)
      [] st.state = "F_CFR" -> process_state_f_cfr(st, fr)
      [] st.state = "F_FTT" -> process_state_f_ftt(st, fr)
      [] st.state = "F_DOC_NON_ECM" -> process_state_f_doc_non_ecm(st, fr)
      [] st.state = "F_POST_DOC_NON_ECM" -> process_state_f_post_doc_non_ecm(st, fr)
      [] st.state \in {"F_DOC_ECM", "F_POST_DOC_ECM"} -> process_state_f_doc_ecm(st, fr)
      [] st.state = "F_POST_RCP_MCF" -> process_state_f_post_rcp_mcf(st, fr)
      [] st.state = "F_POST_RCP_PPR" -> process_state_f_post_rcp_ppr(st, fr)
      [] st.state = "F_POST_RCP_RNR" -> process_state_f_post_rcp_rnr(st, fr)
      [] st.state = "R" -> process_state_r(st, fr)
      [] st.state = "T" -> process_state_t(st, fr)
      [] st.state = "I" -> process_state_i(st, fr)
      [] st.state = "II" -> process_state_ii(st, fr)
      [] st.state = "II_Q" -> process_state_ii_q(st, fr)
      [] st.state = "III_Q_MCF" -> process_state_iii_q_mcf(st, fr)
      [] st.state = "III_Q_RTP" -> process_state_iii_q_rtp(st, fr)
      [] st.state = "III_Q_RTN" -> process_state_iii_q_rtn(st, fr)
      [] st.state = "IV" -> process_state_iv(st, fr)
      [] st.state = "IV_PPS_NULL" -> process_state_iv_pps_null(st, fr)
      [] st.state = "IV_PPS_Q" -> process_state_iv_pps_q(st, fr)
      [] st.state = "IV_PPS_RNR" -> process_state_iv_pps_rnr(st, fr)
      [] st.state = "IV_CTC" -> process_state_iv_ctc(st, fr)
      [] st.state = "IV_EOR" -> process_state_iv_eor(st, fr)
      [] st.state = "IV_EOR_RNR" -> process_state_iv_eor_rnr(st, fr)
      [] st.state = "CALL_FINISHED" -> process_state_call_finished(st, fr)
      [] OTHER -> unexpected_final_frame(st)

hdlc_accept_control_msg(st, fr) ==
    IF ~fr.final
    THEN LET a == IF st.phase # "C_ECM_RX"
                  THEN [st EXCEPT !.timer_t2_t4 =
                            ms_to_samples(IF st.timer_is_t4 THEN DEFAULT_TIMER_T4
                                                            ELSE DEFAULT_TIMER_T2)]
                  ELSE st
         IN CASE fr.fcf \in {"CSI", "NSF", "TSI", "SUB", "SID", "CSA", "TSA", "IRA"} -> a
              [] fr.fcf \in {"PWD", "SEP", "PSA", "CIA", "ISP"} ->
                    IF fr.x = 0 THEN a ELSE unexpected_frame(a)
              [] fr.fcf = "FCD" -> process_rx_fcd(a, fr)
              [] fr.fcf = "RCP" -> process_rx_rcp(a)
              [] OTHER -> unexpected_non_final_frame(a)
    ELSE process_final_frame([st EXCEPT !.timer_t0_t1 = 0], fr)

t30_hdlc_accept_special(st, cond) ==
    CASE cond = "TRAINING_FAILED" -> [st EXCEPT !.rx_trained = FALSE, !.timer_t2_t4 = 0]
      [] cond = "TRAINING_SUCCEEDED" ->
            [st EXCEPT !.rx_signal_present = TRUE, !.rx_trained = TRUE]
      [] cond = "CARRIER_UP" -> [st EXCEPT !.rx_signal_present = TRUE]
      [] cond = "CARRIER_DOWN" ->
            LET a == [st EXCEPT !.rx_signal_present = FALSE, !.rx_trained = FALSE]
            IN IF a.next_phase # "IDLE"
               THEN [set_phase(a, a.next_phase) EXCEPT !.next_phase = "IDLE"]
               ELSE a
      [] cond = "FRAMING_OK" ->
            LET a == IF ~st.far_end_detected /\ st.timer_t0_t1 > 0
                     THEN LET b == [st EXCEPT !.timer_t0_t1 = ms_to_samples(DEFAULT_TIMER_T1),
                                              !.far_end_detected = TRUE]
                          IN IF b.phase \in {"A_CED", "A_CNG"}
                             THEN set_phase(b, "B_RX")
                             ELSE b
                     ELSE st
            IN IF ~a.timer_is_t4 /\ a.timer_t2_t4 > 0
               THEN [a EXCEPT !.timer_t2_t4 = 0]
               ELSE a
      [] OTHER -> st

\* ok is the check of the FCS; hdr_ok says that the frame starts with the
\* address 0xFF and a control octet of 0x03 or 0x13.
\* A variant that cancels the command or response timer before it looks at
\* the FCS.
t30_hdlc_accept_cancel_first(st, fr, ok, hdr_ok) ==
    LET a == [st EXCEPT !.timer_t2_t4 = 0]
    IN IF ~ok
       THEN (IF a.crp_enabled THEN send_simple_frame(a, "CRP") ELSE a)
       ELSE IF fr.len < 3 \/ ~hdr_ok THEN a
            ELSE hdlc_accept_control_msg(a, fr)

t30_hdlc_accept(st, fr, ok, hdr_ok) ==
    IF ~ok
    THEN (IF st.crp_enabled THEN send_simple_frame(st, "CRP") ELSE st)
    ELSE LET a == [st EXCEPT !.timer_t2_t4 = 0]
         IN IF fr.len < 3 \/ ~hdr_ok THEN a
            ELSE hdlc_accept_control_msg(a, fr)

(***************************************************************************)
(* The non-ECM receive path.                                               *)
(***************************************************************************)
apply_next_phase(st) ==
    IF st.next_phase # "IDLE"
    THEN [set_phase(st, st.next_phase) EXCEPT !.next_phase = "IDLE"]
    ELSE st

\* A variant that passes every trainability test.
training_ok_always(st) == TRUE

\* The test of the longest run of zeros counted against one second of bits.
training_ok(st) ==
    ~(st.training_most_zeros < fallback_sequence[st.current_fallback].bit_rate)

non_ecm_carrier_down(st) ==
    LET was_trained == st.rx_trained
        a == [st EXCEPT !.rx_signal_present = FALSE, !.rx_trained = FALSE]
        ok_status(x) == IF x.current_status = "NOCARRIERRX"
                        THEN [x EXCEPT !.current_status = "OK"]
                        ELSE x
        b == CASE a.state = "F_TCF" ->
                    IF was_trained
                    THEN LET c == [a EXCEPT !.training_most_zeros =
                                       Max({a.training_most_zeros, a.training_current_zeros}),
                                                 !.run_most = Max({a.run_most, a.run_current})]
                         IN IF ~training_ok(c)
                            THEN send_simple_frame(
                                     set_state(set_phase(c, "B_TX"), "F_FTT"), "FTT")
                            ELSE send_simple_frame(
                                     set_state(
                                         set_phase(
                                             rx_start_page([c EXCEPT !.short_train = TRUE,
                                                                     !.in_message = TRUE]),
                                             "B_TX"),
                                         "F_CFR"),
                                     "CFR")
                    ELSE a
               [] a.state = "F_POST_DOC_NON_ECM" -> ok_status(a)
               [] OTHER ->
                    IF was_trained
                    THEN ok_status([set_phase(set_state(a, "F_POST_DOC_NON_ECM"), "D_RX")
                                      EXCEPT !.timer_t2_t4 = ms_to_samples(DEFAULT_TIMER_T2),
                                             !.timer_is_t4 = FALSE])
                    ELSE [a EXCEPT !.current_status = "NOCARRIERRX"]
    IN apply_next_phase(b)

t30_non_ecm_put_bit_special(st, cond) ==
    CASE cond = "TRAINING_FAILED" -> [st EXCEPT !.rx_trained = FALSE, !.timer_t2_t4 = 0]
      [] cond = "TRAINING_SUCCEEDED" ->
            [st EXCEPT !.training_current_zeros = 0, !.training_most_zeros = 0,
                       !.run_current = 0, !.run_most = 0,
                       !.rx_signal_present = TRUE, !.rx_trained = TRUE,
                       !.timer_t2_t4 = 0]
      [] cond = "CARRIER_DOWN" -> non_ecm_carrier_down(st)
      [] OTHER -> st

\* The end of the document, found by the T.4 decoder.
non_ecm_end_of_document(st) ==
    [queue_phase(set_state(st, "F_POST_DOC_NON_ECM"), "D_RX")
       EXCEPT !.timer_t2_t4 = ms_to_samples(DEFAULT_TIMER_T2), !.timer_is_t4 = FALSE]

\* t30_non_ecm_put_bit for zeros bits of value 0 and then, when one, a bit
\* of value 1; eod says that the T.4 decoder found the end of the page.
\* run_current and run_most are the run of zero bits really received last
\* and the longest one really received.
t30_non_ecm_put_bits(st, zeros, one, eod) ==
    CASE st.state = "F_TCF" ->
            LET a == [st EXCEPT !.training_current_zeros = @ + zeros,
                                !.run_current = @ + zeros]
            IN IF one
               THEN [a EXCEPT !.training_most_zeros = Max({@, a.training_current_zeros}),
                              !.training_current_zeros = 0,
                              !.run_most = Max({@, a.run_current}),
                              !.run_current = 0]
               ELSE a
      [] st.state = "F_DOC_NON_ECM" -> IF eod THEN non_ecm_end_of_document(st) ELSE st
      [] OTHER -> st

\* An octet that is not zero, by the number of zero bits received before
\* its first bit of value 1 and after its last; NoOctet stands for none.
Octet(lead, trail) == [lead |-> lead, trail |-> trail]

NoOctet == Octet(-1, -1)

\* t30_non_ecm_put_byte for zeros octets of value zero and then, unless it
\* is NoOctet, the octet given.
t30_non_ecm_put_bytes(st, zeros, octet, eod) ==
    CASE st.state = "F_TCF" ->
            LET a == [st EXCEPT !.training_current_zeros = @ + 8*zeros,
                                !.run_current = @ + 8*zeros]
            IN IF octet # NoOctet
               THEN [a EXCEPT !.training_most_zeros = Max({@, a.training_current_zeros}),
                              !.training_current_zeros = 0,
                              !.run_most = Max({@, a.run_current + octet.lead}),
                              !.run_current = octet.trail]
               ELSE a
      [] st.state = "F_DOC_NON_ECM" -> IF eod THEN non_ecm_end_of_document(st) ELSE st
      [] OTHER -> st

\* A chunk of zeros octets of value zero, followed by an octet 0xFF when
\* tail: the loop does for each octet what t30_non_ecm_put_byte does.
t30_non_ecm_put_chunk(st, zeros, tail, eod) ==
    t30_non_ecm_put_bytes(st, zeros, IF tail THEN Octet(0, 0) ELSE NoOctet, eod)

\* t30_front_end_status, for the statuses other than SEND_COMPLETE.
receive_complete(st) ==
    IF st.phase = "C_NON_ECM_RX"
    THEN t30_non_ecm_put_bit_special(st, "CARRIER_DOWN")
    ELSE t30_hdlc_accept_special(st, "CARRIER_DOWN")

signal_present(st) ==
    IF st.phase \in {"A_CED", "A_CNG", "B_RX", "D_RX"}
    THEN t30_hdlc_accept_special(t30_hdlc_accept_special(st, "CARRIER_UP"), "FRAMING_OK")
    ELSE [st EXCEPT !.rx_signal_present = TRUE, !.timer_t2_t4 = 0]

t30_set_receiver_not_ready(st, count) == [st EXCEPT !.receiver_not_ready_count = count]

t30_local_interrupt_request(st, state) ==
    LET a == IF st.timer_t3 > 0
             THEN send_simple_frame(st, IF state THEN "PIP" ELSE "PIN")
             ELSE st
    IN [a EXCEPT !.local_interrupt_pending = state]

\* Every entry point starts with nothing sent yet.
Enter(st) == [st EXCEPT !.tx = <<>>, !.committed = FALSE]

\* The session is live until the application releases it, which it does
\* some events after the phase E callback.
Live(st) == st.e_calls = 0 \/ st.after < MaxAfter

\* The end of an event: old is the state it started from.
Done(old, new) == [new EXCEPT !.after = IF old.e_calls > 0 THEN @ + 1 ELSE @,
                              !.t4_stats = old.t4_stats]

\* A session's configuration: what the application sets before the call.
Cfg(calling, ecm, modems, pages, page_frames) ==
    [calling_party |-> calling, tx_file |-> TRUE, rx_file |-> TRUE,
     ecm_allowed |-> ecm, supported_modems |-> modems,
     local_nsf_len |-> 0, local_ident |-> FALSE, local_password |-> FALSE,
     local_sub_address |-> FALSE, iaf_no_tcf |-> FALSE,
     t4_tx_ok |-> TRUE, t4_rx_ok |-> TRUE, phase_d_handler |-> FALSE,
     pages |-> pages, page_frames |-> page_frames,
     x_resolution |-> "R8", y_resolution |-> "STANDARD", image_width |-> "R8_A4"]

V29Modems == {"V27TER", "V29"}

ModemSets == {{"V27TER"}, V29Modems, {"V27TER", "V29", "V17"}}

(***************************************************************************)
(* The frames of the far end.  Its DIS and DCS are those an engine of the  *)
(* same kind sends.                                                        *)
(***************************************************************************)
Simple(fcf) == Frame(fcf, 0, TRUE, 3, "", <<>>, {})

NonFinal(fcf) == Frame(fcf, 0, FALSE, 23, "", <<>>, {})

FarDIS(ecm, modems) ==
    send_dis_or_dtc_sequence(t30_init(Cfg(FALSE, ecm, modems, 1, 1))).last_tx

FarDCS(ecm) ==
    process_rx_dis_dtc(t30_init(Cfg(TRUE, ecm, V29Modems, 1, 1)),
                       FarDIS(ecm, V29Modems)).last_tx

FarPPS(fcf2, count) == Frame("PPS", 0, TRUE, MIN_PPS_LEN, fcf2, <<0, 0, 0, count>>, {})

FarPPR(map, len) == Frame("PPR", 0, TRUE, len, "", <<>>, map)

\* A full FCD frame numbered k whose image data are zero octets.
FarFCD(k) == Frame("FCD", 0, FALSE, MAX_FCD_LEN, "", <<k, 0>>, {})

\* What the far end sends to a sender of documents without ECM.
TxFrames ==
    {Simple(f) : f \in {"CFR", "MCF", "RTP", "RTN", "DCN", "CRP", "PIP"}}
    \cup {FarDIS(FALSE, V29Modems), NonFinal("CSI")}

\* To a sender that is asked for its trainability test again and again.
TrainFrames ==
    {Simple(f) : f \in {"CFR", "FTT"}} \cup {FarDIS(FALSE, m) : m \in ModemSets}

\* To a sender of documents with ECM.
PprFrames == {FarPPR(m, PPR_FRAME_LEN) : m \in SUBSET Slots} \cup {FarPPR({}, 3)}

EcmFrames ==
    {Simple(f) : f \in {"CFR", "MCF", "RNR", "CTR", "CRP", "DCN"}}
    \cup {FarDIS(TRUE, V29Modems)}
    \cup PprFrames
   

\* To a receiver of documents with ECM.
RxFrames ==
    {FarDCS(TRUE)}
    \cup {FarPPS(f, c) : f \in {"NULL", "EOP"}, c \in Slots}
    \cup {FarFCD(k) : k \in Slots}
    \cup {Frame("RCP", 0, FALSE, 3, "", <<>>, {})}

\* To a sender left alone by the far end after its first frames.
FairFrames == {Simple("CFR"), FarDIS(FALSE, V29Modems)}

\* The received pages are counted in ecm_page, without a limit.
Capped(st) == st.ecm_page <= MaxPages /\ st.training_current_zeros < MaxZeros

(***************************************************************************)
(* The events.                                                             *)
(***************************************************************************)
Terminate == Live(s) /\ s' = Done(s, t30_terminate(Enter(s)))

\* Time is advanced to the next expiry of a timer that runs; when none
\* runs, by the time of T4.
TickSamples(st) ==
    LET running == {v \in {st.timer_t0_t1, st.timer_t2_t4, st.timer_t3, st.timer_t5} : v > 0}
    IN IF running = {} THEN {ms_to_samples(DEFAULT_TIMER_T4)}
       ELSE {CHOOSE v \in running : \A w \in running : v <= w}

TimerUpdate ==
    \E samples \in TickSamples(s) :
        /\ Live(s) /\ s.retries < MaxRetries
        /\ s' = Done(s, t30_timer_update(Enter(s), samples))

\* The front end reports the end of a transmission it was asked for.
SendComplete ==
    /\ Live(s) /\ s.tx_busy
    /\ s' = Done(s, send_complete([Enter(s) EXCEPT !.tx_busy = FALSE]))

\* The run of FTT responses to the trainability test: a final frame of any
\* other kind ends it.
FttRun(st, fr) ==
    CASE fr.fcf = "FTT" /\ st.state = "D_POST_TCF" ->
            IF st.ftt_run < MAX_MESSAGE_TRIES THEN st.ftt_run + 1 ELSE st.ftt_run
      [] fr.final -> 0
      [] OTHER -> st.ftt_run

\* A frame with a good FCS and a good header.
Accept(st, fr) ==
    Done(st, [t30_hdlc_accept(Enter(st), fr, TRUE, TRUE) EXCEPT !.ftt_run = FttRun(st, fr)])

HdlcAcceptFrom(frames) ==
    \E fr \in frames : Live(s) /\ Capped(s) /\ s' = Accept(s, fr)

TxHdlcAccept == HdlcAcceptFrom(TxFrames)

TrainHdlcAccept == HdlcAcceptFrom(TrainFrames)

EcmHdlcAccept == HdlcAcceptFrom(EcmFrames)

RxHdlcAccept == HdlcAcceptFrom(RxFrames)

FairHdlcAccept == HdlcAcceptFrom(FairFrames)

\* A frame with a bad FCS, a wrong header, or fewer than three octets.
HdlcAcceptBad ==
    \E ok \in BOOLEAN, hdr_ok \in BOOLEAN, len \in {2, 3} :
        /\ ~(ok /\ hdr_ok /\ len = 3)
        /\ Live(s)
        /\ s' = Done(s, t30_hdlc_accept(Enter(s), Frame("CFR", 0, TRUE, len, "", <<>>, {}),
                                         ok, hdr_ok))

\* The carrier of the V.21 receiver comes and goes.
HdlcCarrier ==
    \E cond \in {"CARRIER_UP", "CARRIER_DOWN"} :
        Live(s) /\ s' = Done(s, t30_hdlc_accept_special(Enter(s), cond))

\* The fast modem delivers to the non-ECM path in the phase of that name.
NonEcmSpecial ==
    \E cond \in {"TRAINING_SUCCEEDED", "TRAINING_FAILED", "CARRIER_DOWN"} :
        /\ Live(s) /\ Capped(s) /\ s.phase = "C_NON_ECM_RX"
        /\ s' = Done(s, t30_non_ecm_put_bit_special(Enter(s), cond))

NonEcmPutChunk ==
    \E zeros \in ChunkLens, tail \in BOOLEAN, eod \in BOOLEAN :
        /\ Live(s) /\ Capped(s) /\ s.phase = "C_NON_ECM_RX" /\ s.rx_trained
        /\ s' = Done(s, t30_non_ecm_put_chunk(Enter(s), zeros, tail, eod))

\* The application holds the receiver back while a partial page arrives.
NotReadyCounts == {1}

SetReceiverNotReady ==
    \E count \in NotReadyCounts :
        /\ Live(s) /\ Capped(s)
        /\ s.state = "F_DOC_ECM" /\ s.receiver_not_ready_count = 0
        /\ s' = Done(s, t30_set_receiver_not_ready(Enter(s), count))

(***************************************************************************)
(* A session that sends a document without ECM.                            *)
(***************************************************************************)
Init == \E pages \in 1..MaxPages : s = t30_init(Cfg(TRUE, FALSE, V29Modems, pages, 1))

Next ==
    \/ Terminate
    \/ TimerUpdate
    \/ SendComplete
    \/ TxHdlcAccept
    \/ HdlcAcceptBad
    \/ HdlcCarrier

Spec == Init /\ [][Next]_vars

(***************************************************************************)
(* The same session when ticks and the ends of transmissions are never     *)
(* withheld: t30_timer_update is called for every chunk of audio, and the  *)
(* front end reports the end of every transmission.                        *)
(***************************************************************************)
FairInit == s = t30_init(Cfg(TRUE, FALSE, V29Modems, 1, 1))

FairNext ==
    \/ TimerUpdate
    \/ SendComplete
    \/ FairHdlcAccept
    \/ HdlcAcceptBad

FairSpec ==
    FairInit /\ [][FairNext]_vars /\ WF_vars(TimerUpdate) /\ WF_vars(SendComplete)

(***************************************************************************)
(* A sender whose trainability test is answered by FTT.                    *)
(***************************************************************************)
TrainInit == \E m \in ModemSets : s = t30_init(Cfg(TRUE, FALSE, m, 1, 1))

TrainNext ==
    \/ TimerUpdate
    \/ SendComplete
    \/ TrainHdlcAccept

TrainSpec == TrainInit /\ [][TrainNext]_vars

(***************************************************************************)
(* A session that sends a document with ECM.                               *)
(***************************************************************************)
EcmInit ==
    \E f \in {EcmSlots - 1, EcmSlots + 1} : s = t30_init(Cfg(TRUE, TRUE, V29Modems, 1, f))

EcmNext ==
    \/ Terminate
    \/ TimerUpdate
    \/ SendComplete
    \/ EcmHdlcAccept
    \/ HdlcAcceptBad

EcmSpec == EcmInit /\ [][EcmNext]_vars

(***************************************************************************)
(* A session that receives a document with ECM.                            *)
(***************************************************************************)
RxInit == s = t30_init(Cfg(FALSE, TRUE, V29Modems, 1, 1))

RxNext ==
    \/ SendComplete
    \/ RxHdlcAccept
    \/ NonEcmSpecial
    \/ NonEcmPutChunk
    \/ SetReceiverNotReady

RxSpec == RxInit /\ [][RxNext]_vars

(***************************************************************************)
(* A session that receives pages without ECM.                              *)
(***************************************************************************)
\* What t4_get_transfer_statistics reports for a good, a poor and a bad page.
PageStats ==
    {[bad_rows |-> b, length |-> 100] : b \in {0, 3, 10}}

PostPageCommands == {"MPS", "EOM", "EOP", "PRI_MPS", "PRI_EOM", "PRI_EOP"}

PageFrames == {FarDCS(FALSE)} \cup {Simple(f) : f \in PostPageCommands}

PageHdlcAccept == HdlcAcceptFrom(PageFrames)

PageInit ==
    \E q \in PageStats :
        s = [t30_init(Cfg(FALSE, FALSE, V29Modems, 1, 1)) EXCEPT !.t4_stats = q]

PageNext ==
    \/ SendComplete
    \/ PageHdlcAccept
    \/ NonEcmSpecial
    \/ NonEcmPutChunk

PageSpec == PageInit /\ [][PageNext]_vars

(***************************************************************************)
(* A session that receives a page, with or without ECM, and whose          *)
(* application holds the receiver back.                                    *)
(***************************************************************************)
HoldFrames ==
    {FarDCS(e) : e \in BOOLEAN}
    \cup {Simple(f) : f \in {"EOP", "RR"}}
    \cup {FarPPS("EOP", 0), FarFCD(0)}

HoldHdlcAccept == HdlcAcceptFrom(HoldFrames)

HoldCounts == {1, 2}

HoldReceiver ==
    \E count \in HoldCounts :
        /\ Live(s) /\ Capped(s)
        /\ s.state \in {"F_DOC_ECM", "F_DOC_NON_ECM"} /\ s.receiver_not_ready_count = 0
        /\ s' = Done(s, t30_set_receiver_not_ready(Enter(s), count))

HoldInit == s = t30_init(Cfg(FALSE, TRUE, V29Modems, 1, 1))

HoldNext ==
    \/ SendComplete
    \/ HoldHdlcAccept
    \/ NonEcmSpecial
    \/ NonEcmPutChunk
    \/ HoldReceiver

HoldSpec == HoldInit /\ [][HoldNext]_vars

(***************************************************************************)
(* A session that receives the trainability test, from a front end that    *)
(* delivers bits and from one that delivers octets.                        *)
(***************************************************************************)
TcfFrames == {FarDCS(FALSE)}

TcfHdlcAccept == HdlcAcceptFrom(TcfFrames)

\* Half a second and a second of zero bits at 9600 bit/s.
BitRuns == {4800, 9600}

NonEcmPutBits ==
    \E zeros \in BitRuns, one \in BOOLEAN, eod \in BOOLEAN :
        /\ Live(s) /\ Capped(s) /\ s.phase = "C_NON_ECM_RX" /\ s.rx_trained
        /\ s' = Done(s, t30_non_ecm_put_bits(Enter(s), zeros, one, eod))

\* A second of zero bits less one octet, and half a second.
ByteRuns == {1199, 600}

\* 0xFF and the octets with one bit of value 1, received last or first.
TailOctets == {Octet(0, 0), Octet(7, 0), Octet(0, 7)}

NonEcmPutBytes ==
    \E zeros \in ByteRuns, octet \in TailOctets \cup {NoOctet}, eod \in BOOLEAN :
        /\ Live(s) /\ Capped(s) /\ s.phase = "C_NON_ECM_RX" /\ s.rx_trained
        /\ s' = Done(s, t30_non_ecm_put_bytes(Enter(s), zeros, octet, eod))

TcfInit == s = t30_init(Cfg(FALSE, FALSE, V29Modems, 1, 1))

TcfNext ==
    \/ SendComplete
    \/ TcfHdlcAccept
    \/ NonEcmSpecial
    \/ NonEcmPutBits
    \/ NonEcmPutBytes

TcfSpec == TcfInit /\ [][TcfNext]_vars

(***************************************************************************)
(* Properties of the engine.                                               *)
(***************************************************************************)
Timers(st) == <<st.timer_t0_t1, st.timer_t2_t4, st.timer_t3, st.timer_t5>>

\* C1: the phase-E callback is invoked exactly once per call, whatever the
\* sequence of frames, carrier changes, send-completes, ticks and terminate
\* calls; it is never invoked a second time.
PhaseEOnce == s.e_calls <= 1

PhaseEOnceReached == s.e_calls = 1 /\ s.state = "CALL_FINISHED"

\* C2: with ticks always arriving and every transmission reported complete,
\* every call eventually reaches state and phase CALL_FINISHED, whatever the
\* far end does and without terminate being called.
CallFinishes == <>(s.state = "CALL_FINISHED" /\ s.phase = "CALL_FINISHED")

\* C3: once the state is CALL_FINISHED every later event is ignored: state,
\* phase, current_status and all timers stay as they are, no frame is sent
\* and no callback is invoked.
FinishedIgnores ==
    [][s.state = "CALL_FINISHED" =>
          /\ s'.state = s.state
          /\ s'.phase = s.phase
          /\ s'.current_status = s.current_status
          /\ Timers(s') = Timers(s)
          /\ s'.tx = <<>>
          /\ s'.e_calls = s.e_calls]_vars

\* C4: t30_terminate in a phase other than CALL_FINISHED invokes the phase-E
\* callback exactly once and leaves state and phase CALL_FINISHED; the status
\* reported is CALLDROPPED unless the state was B or C, when the status the
\* session already had is reported unchanged.  In phase CALL_FINISHED it does
\* nothing.
TerminateFinishes ==
    [][(s' = Done(s, t30_terminate(Enter(s)))) =>
          IF s.phase # "CALL_FINISHED"
          THEN /\ s'.state = "CALL_FINISHED"
               /\ s'.phase = "CALL_FINISHED"
               /\ s'.e_calls = (IF s.e_calls < MaxECalls THEN s.e_calls + 1 ELSE s.e_calls)
               /\ s'.current_status = (IF s.state \in {"B", "C"} THEN s.current_status
                                                              ELSE "CALLDROPPED")
               /\ s'.e_status = s'.current_status
          ELSE s' = Done(s, Enter(s))]_vars

TerminateDropped ==
    /\ s.state = "CALL_FINISHED" /\ s.phase = "CALL_FINISHED"
    /\ s.e_calls = 1 /\ s.e_status = "CALLDROPPED"

Sent(st, fcf) == \E i \in 1..Len(st.tx) : st.tx[i].fcf = fcf

T4Expiry(old, new) ==
    /\ old.timer_is_t4 /\ old.timer_t2_t4 > 0
    /\ new = Done(old, t30_timer_update(Enter(old), old.timer_t2_t4))

\* C5: three consecutive expiries of T4 in state II_Q, the retry counter being
\* 0 at the first, result in DCN being sent with current_status PHDDEADTX.
ThirdT4ExpirySendsDcn ==
    [][(s.state = "II_Q" /\ s.retries = MAX_MESSAGE_TRIES - 1 /\ T4Expiry(s, s')) =>
          (Sent(s', "DCN") /\ s'.current_status = "PHDDEADTX")]_vars

ThirdT4ExpiryReached == s.state = "II_Q" /\ s.retries = MAX_MESSAGE_TRIES

\* The fourth expiry is the one that gives up.
FourthT4ExpirySendsDcn ==
    [][(s.state = "II_Q" /\ s.retries = MAX_MESSAGE_TRIES /\ T4Expiry(s, s')) =>
          (Sent(s', "DCN") /\ s'.current_status = "PHDDEADTX" /\ s'.state = "C")]_vars

FttAccepted(old, new) == old.state = "D_POST_TCF" /\ new = Accept(old, Simple("FTT"))

LaterPermitted(st) ==
    {i \in (st.current_fallback + 1)..7 :
        fallback_sequence[i].which \in st.current_permitted_modems}

PprAccepted(old, new) ==
    /\ old.state \in {"IV_PPS_NULL", "IV_PPS_Q", "IV_PPS_RNR"}
    /\ \E fr \in PprFrames : new = Accept(old, fr)

\* C7: of four consecutive PPR responses for one partial page, with no MCF
\* and no new block in between, the first three are each answered with a
\* retransmission burst and the fourth with CTC or EOR and no burst.
FourthPprEndsRetransmission ==
    [][PprAccepted(s, s') =>
          IF s.ppr_count >= 3
          THEN (Sent(s', "CTC") \/ Sent(s', "EOR")) /\ ~Sent(s', "FCD")
          ELSE s'.state = "IV" /\ (Sent(s', "FCD") \/ Sent(s', "RCP"))]_vars

FourthPprReached == s.state = "IV_CTC" /\ s.ppr_count = 4 /\ Sent(s, "CTC")

\* What holds: a PPR of 35 octets received straight after PPS.
WellFormedPprAnswered ==
    [][\A m \in SUBSET Slots :
          (s.state \in {"IV_PPS_NULL", "IV_PPS_Q"} /\ s' = Accept(s, FarPPR(m, PPR_FRAME_LEN))) =>
              IF s.ppr_count >= 3
              THEN Sent(s', "CTC") /\ ~Sent(s', "FCD") /\ s'.state = "IV_CTC"
              ELSE s'.state = "IV" /\ (Sent(s', "FCD") \/ Sent(s', "RCP"))]_vars

Present(st) == {k \in Slots : st.ecm_len[k] # -1}

\* C9: a PPR of 35 octets that is one of the first three for the partial page
\* clears every slot whose bit in the map is 0 and leaves the others as they
\* were, so the slots whose length is not -1 afterwards are those that were
\* so before and have their bit set; the fourth PPR, and a PPR of any other
\* length, leaves the slots as they were.
PprClearsUnrequestedSlots ==
    [][\A fr \in PprFrames :
          (s.state \in {"IV_PPS_NULL", "IV_PPS_Q"} /\ s' = Accept(s, fr)) =>
              Present(s') = IF s.ppr_count < 3 /\ fr.len = PPR_FRAME_LEN
                            THEN Present(s) \cap fr.map
                            ELSE Present(s)]_vars

PprClearedReached ==
    /\ s.state = "IV" /\ s.ppr_count >= 1 /\ s.ecm_frames = EcmSlots
    /\ Present(s) # {} /\ Present(s) # Slots /\ Sent(s, "FCD")

\* C9 as stated: after a PPR the slots whose length is not -1 are exactly
\* those whose bit in the map is 1.
PprSlotsEqualMap ==
    [][\A fr \in PprFrames :
          (/\ s.state \in {"IV_PPS_NULL", "IV_PPS_Q"}
           /\ s.ppr_count < 3 /\ fr.len = PPR_FRAME_LEN
           /\ s' = Accept(s, fr)) => Present(s') = fr.map]_vars

RepeatStates ==
    {"R", "D", "D_POST_TCF", "F_CFR", "F_FTT", "II_Q", "III_Q_MCF", "III_Q_RTP",
     "III_Q_RTN", "IV_PPS_NULL", "IV_PPS_Q", "IV_PPS_RNR", "IV_EOR_RNR"}

\* repeat_last_command is called for a CRP and for an expiry of T4 that is
\* not the last one allowed.
RepeatCalled(old, new) ==
    \/ new = Accept(old, Simple("CRP"))
    \/ old.retries < MAX_MESSAGE_TRIES /\ T4Expiry(old, new)

\* C8: in each state in which repeat_last_command acts, calling it (for a CRP
\* or an expiry of T4) sends again a frame identical octet for octet to the
\* last frame the engine sent, and leaves the state unchanged.
RepeatsLastFrame ==
    [][(s.state \in RepeatStates /\ RepeatCalled(s, s')) =>
          (s'.tx = <<s.last_tx>> /\ s'.state = s.state)]_vars

RepeatedReached == s.state = "IV_PPS_RNR" /\ s.retries = 1 /\ Sent(s, "RNR")

PpsFrames == {FarPPS(f, c) : f \in {"NULL", "EOP"}, c \in Slots}

\* A PPS whose frame count agrees with the count held for the block.
PpsAccepted(old, new, fr) ==
    /\ old.state \in {"F_DOC_ECM", "F_POST_DOC_ECM"}
    /\ old.ecm_frames < 0 \/ old.ecm_frames = fr.b[4] + 1
    /\ old.receiver_not_ready_count = 0
    /\ new = Accept(old, fr)

PprSent(st, map) == \E i \in 1..Len(st.tx) : st.tx[i].fcf = "PPR" /\ st.tx[i].map = map

\* C10: on a PPS for a block of n frames the receiver answers MCF, and
\* commits the block, if and only if every slot 0..n-1 has been received;
\* otherwise it answers PPR whose map has bit k set exactly for the slots
\* k < n that are still missing and bit k clear for every other k.
PpsAnsweredForBlock ==
    [][\A fr \in PpsFrames :
          PpsAccepted(s, s', fr) =>
              LET n == fr.b[4] + 1
                  missing == {k \in Slots : k < n /\ s.ecm_len[k] < 0}
              IN IF missing = {}
                 THEN Sent(s', "MCF") /\ s'.committed
                 ELSE ~Sent(s', "MCF") /\ ~s'.committed /\ PprSent(s', missing)]_vars

PpsAnsweredReached == s.state = "F_POST_RCP_PPR" /\ Sent(s, "PPR")

\* What holds: the map of the PPR has a bit for every slot of the buffer that
\* is empty, whether below the frame count or not.
PpsAnsweredForBuffer ==
    [][\A fr \in PpsFrames :
          PpsAccepted(s, s', fr) =>
              LET n == fr.b[4] + 1
                  missing == {k \in Slots : s.ecm_len[k] < 0}
              IN IF \A k \in missing : k >= n
                 THEN Sent(s', "MCF") /\ s'.committed
                 ELSE ~Sent(s', "MCF") /\ ~s'.committed /\ PprSent(s', missing)]_vars

\* The FCD frames of the slots from i on that hold a frame, in slot order.
RECURSIVE FcdFrom(_, _)
FcdFrom(st, i) ==
    IF i >= st.ecm_frames \/ i \notin Slots THEN <<>>
    ELSE (IF st.ecm_len[i] >= 0 THEN << <<"FCD", i>> >> ELSE <<>>) \o FcdFrom(st, i + 1)

\* A whole burst for the buffer of st, with n RCP frames.
BurstOf(st, n) == FcdFrom(st, 0) \o [k \in 1..n |-> <<"RCP", -1>>] \o << <<"PPS", -1>> >>

IsPrefix(a, b) == Len(a) <= Len(b) /\ a = SubSeq(b, 1, Len(a))

\* The burst is still being sent, or it ended with PPS.
BurstRuns(st) ==
    st.in_burst \/ (st.burst # <<>> /\ st.burst[Len(st.burst)][1] = "PPS")

\* C11: every ECM burst is the FCD frames of the slots with length >= 0 in
\* ascending slot order, then exactly three RCP frames, then one PPS frame,
\* with nothing else in between.
BurstThreeRcp == BurstRuns(s) => IsPrefix(s.burst, BurstOf(s, 3))

\* A burst that skipped an acknowledged slot has been sent up to its PPS.
BurstSent ==
    /\ ~s.in_burst /\ s.burst # <<>> /\ s.burst[Len(s.burst)][1] = "PPS"
    /\ \E i, j \in Slots : i < j /\ j < s.ecm_frames /\ s.ecm_len[i] < 0 /\ s.ecm_len[j] >= 0

\* What send_next_ecm_frame does send: the same burst with four RCP frames.
BurstFourRcp == BurstRuns(s) => IsPrefix(s.burst, BurstOf(s, 4))

\* Every slot of st is empty or holds its own number in octet 3.
SlotsNumbered(st) == \A i \in Slots : st.ecm_len[i] = -1 \/ st.ecm_octet3[i] = i

\* C12: while a document is received with ECM, every slot of the buffer has
\* length -1 or holds a frame whose octet 3 is the slot's number, whatever
\* FCD frames have been received.
SlotsHoldOwnNumber ==
    s.state \in {"F_DOC_ECM", "F_POST_DOC_ECM"} => SlotsNumbered(s)

\* An FCD frame has been stored in a slot other than slot 0.
FcdStored ==
    /\ s.state = "F_DOC_ECM"
    /\ \E i \in Slots : i > 0 /\ s.ecm_len[i] = MAX_FCD_LEN - 4

\* The same for the sender, whose slots hold whole frames.
SenderSlotsHoldOwnNumber ==
    s.state \in {"IV", "IV_PPS_NULL", "IV_PPS_Q", "IV_PPS_RNR", "IV_CTC"} => SlotsNumbered(s)

\* The receiver answers with RNR alone and counts one down.
HeldBack(old, new) ==
    /\ Len(new.tx) = 1 /\ new.tx[1].fcf = "RNR"
    /\ new.receiver_not_ready_count = old.receiver_not_ready_count - 1
    /\ new.state = "F_POST_RCP_RNR"

\* A command that asks for the acknowledgement of a page or partial page.
AsksAck(st, fr) ==
    \/ fr.fcf = "PPS" /\ st.state \in {"F_DOC_ECM", "F_POST_DOC_ECM"}
    \/ fr.fcf \in PostPageCommands /\ st.state = "F_POST_DOC_NON_ECM"

\* The acknowledgement of the partial page in the buffer of old.
Resolved(old, new) ==
    LET missing == {k \in Slots : old.ecm_len[k] < 0}
    IN IF \A k \in missing : k >= old.ecm_frames
       THEN Sent(new, "MCF") /\ ~Sent(new, "RNR")
       ELSE PprSent(new, missing) /\ ~Sent(new, "RNR")

\* An RR to a receiver that has answered RNR: RNR again while the count is
\* above zero, the acknowledgement once it is zero.
RrAnswered(old, new, fr) ==
    (fr.fcf = "RR" /\ old.state = "F_POST_RCP_RNR") =>
        IF old.receiver_not_ready_count > 0 THEN HeldBack(old, new) ELSE Resolved(old, new)

\* C13 as stated: with receiver_not_ready_count above zero a post-page
\* command without ECM, and a PPS with ECM, is answered with RNR and a
\* decrement; each RR that follows likewise while the count is above zero,
\* and with MCF or PPR once it is zero; the count never goes below zero.
NotReadyDefersAll ==
    [][/\ \A fr \in HoldFrames :
             s' = Accept(s, fr) =>
                 /\ (AsksAck(s, fr) /\ s.receiver_not_ready_count > 0) => HeldBack(s, s')
                 /\ RrAnswered(s, s', fr)
       /\ s'.receiver_not_ready_count >= 0]_vars

\* C13: with ECM a PPS that arrives while receiver_not_ready_count is above
\* zero is answered with RNR and a decrement, and so is each RR that follows
\* while the count is above zero; the RR that finds the count at zero is
\* answered with MCF or PPR for the buffer.  Without ECM the count is not
\* looked at: the post-page command is answered at once and the count stays.
\* The count never goes below zero.
NotReadyDefersPps ==
    [][/\ \A fr \in HoldFrames :
             s' = Accept(s, fr) =>
                 /\ (AsksAck(s, fr) /\ s.receiver_not_ready_count > 0) =>
                        IF fr.fcf = "PPS" THEN HeldBack(s, s')
                        ELSE /\ s'.tx = <<Simple("MCF")>>
                             /\ s'.receiver_not_ready_count = s.receiver_not_ready_count
                 /\ RrAnswered(s, s', fr)
       /\ s'.receiver_not_ready_count >= 0]_vars

\* The last RNR of a receiver that was held back has just been sent, for a
\* partial page of one frame that has been received.
HeldBackLast ==
    /\ s.state = "F_POST_RCP_RNR" /\ s.receiver_not_ready_count = 0
    /\ Sent(s, "RNR") /\ s.ecm_frames = 1 /\ s.ecm_len[0] >= 0

\* A post-page command for a page that copy_quality finds good, handled in
\* F_POST_DOC_NON_ECM.
GoodPageCommand(old, new, fr) ==
    /\ fr.fcf \in PostPageCommands
    /\ old.state = "F_POST_DOC_NON_ECM" /\ copy_quality(old) = "GOOD"
    /\ new = Accept(old, fr)

McfAlone(st) == Len(st.tx) = 1 /\ st.tx[1].fcf = "MCF"

\* C14 as stated: without ECM every post-page command (MPS, EOM, EOP and
\* their PRI variants) for a good page, handled in F_POST_DOC_NON_ECM, has
\* MCF sent exactly once and takes the receiver to III_Q_MCF.
GoodPageGetsMcf ==
    [][\A fr \in PageFrames :
          GoodPageCommand(s, s', fr) => McfAlone(s') /\ s'.state = "III_Q_MCF"]_vars

\* C14: without ECM, MPS, EOM or EOP for a good page, handled in
\* F_POST_DOC_NON_ECM, has MCF sent once and takes the receiver to
\* III_Q_MCF; a PRI variant takes it to III_Q_MCF with nothing sent; and a
\* MPS, EOM or EOP received again in III_Q_MCF has MCF sent again.
GoodPageAnswered ==
    [][\A fr \in PageFrames :
          /\ GoodPageCommand(s, s', fr) =>
                 /\ s'.state = "III_Q_MCF"
                 /\ IF fr.fcf \in {"MPS", "EOM", "EOP"} THEN McfAlone(s') ELSE s'.tx = <<>>
          /\ (/\ fr.fcf \in {"MPS", "EOM", "EOP"} /\ s.state = "III_Q_MCF"
              /\ s' = Accept(s, fr)) => McfAlone(s') /\ s'.state = "III_Q_MCF"]_vars

\* MCF has been sent for a good page that ended with MPS.
GoodPageMcfSent ==
    /\ s.state = "III_Q_MCF" /\ McfAlone(s) /\ copy_quality(s) = "GOOD"
    /\ s.next_rx_step = "MPS"

\* The carrier of a trainability test that trained drops.
TcfCarrierDown(old, new) ==
    /\ old.state = "F_TCF" /\ old.rx_trained
    /\ new = Done(old, t30_non_ecm_put_bit_special(Enter(old), "CARRIER_DOWN"))

\* The answer to a trainability test found good, or bad.
TcfAnswered(st, good) ==
    IF good THEN Sent(st, "CFR") /\ ~Sent(st, "FTT") /\ st.state = "F_CFR"
    ELSE Sent(st, "FTT") /\ ~Sent(st, "CFR") /\ st.state = "F_FTT"

BitRate(st) == fallback_sequence[st.current_fallback].bit_rate

\* C15 as stated: when the carrier of the trainability test drops, CFR is
\* sent if and only if the longest run of zero bits received is at least
\* the bit rate of the fallback entry, and FTT otherwise, whether the bits
\* came through the bit or the octet interface.
TcfJudgedByLongestRun ==
    [][TcfCarrierDown(s, s') =>
          TcfAnswered(s', Max({s.run_most, s.run_current}) >= BitRate(s))]_vars

\* C15: when the carrier of a trainability test that trained drops, CFR is
\* sent if and only if the count of zeros is at least the bit rate of the
\* fallback entry, and FTT otherwise.  The count is never above the longest
\* run of zero bits received; bits delivered one by one keep a count that is
\* equal to it equal, while octets count 8 for each zero octet and nothing
\* for the zero bits of the others.
TcfJudgedByCount ==
    [][/\ TcfCarrierDown(s, s') =>
              TcfAnswered(s', Max({s.training_most_zeros, s.training_current_zeros})
                                  >= BitRate(s))
       /\ s'.state = "F_TCF" =>
              /\ s'.training_current_zeros <= s'.run_current
              /\ s'.training_most_zeros <= s'.run_most
       /\ \A zeros \in BitRuns, one \in BOOLEAN, eod \in BOOLEAN :
              (/\ s.state = "F_TCF"
               /\ s.training_current_zeros = s.run_current
               /\ s.training_most_zeros = s.run_most
               /\ s' = Done(s, t30_non_ecm_put_bits(Enter(s), zeros, one, eod))) =>
                   /\ s'.training_current_zeros = s'.run_current
                   /\ s'.training_most_zeros = s'.run_most]_vars

\* FTT has been sent for a test whose longest run of zero bits lasted a
\* second, delivered as octets.
TcfUndercounted ==
    /\ s.state = "F_FTT" /\ Sent(s, "FTT")
    /\ s.run_most >= BitRate(s) /\ s.training_most_zeros < BitRate(s)

\* The types of final frame that the handler of each state has a case for.
Recognised(state) ==
    CASE state = "ANSWERING" -> {"DIS", "DCS", "DCN"}
      [] state \in {"B", "C", "D", "D_TCF"} -> {"DCN", "CRP", "FNV"}
      [] state = "D_POST_TCF" -> {"CFR", "FTT", "DIS", "DCN", "CRP", "FNV"}
      [] state = "F_DOC_NON_ECM" ->
            PostPageCommands \cup {"DIS", "DCS", "DCN", "CRP", "FNV"}
      [] state = "F_POST_DOC_NON_ECM" -> PostPageCommands \cup {"DCN", "CRP", "FNV"}
      [] state \in {"F_DOC_ECM", "F_POST_DOC_ECM"} ->
            {"DIS", "DCS", "EOR", "PPS", "CTC", "RR", "DCN", "CRP", "FNV"}
      [] state = "F_POST_RCP_RNR" -> {"RR", "CRP", "FNV"}
      [] state = "R" -> {"DIS", "DCS", "DCN", "CRP", "FNV"}
      [] state = "T" -> {"DIS", "DCN", "CRP", "FNV"}
      [] state = "II_Q" -> {"MCF", "RTP", "RTN", "PIP", "PIN", "DCN", "CRP", "FNV"}
      [] state \in {"III_Q_MCF", "III_Q_RTP"} -> {"MPS", "EOM", "EOP", "CRP", "FNV"}
      [] state = "III_Q_RTN" -> {"MPS", "EOM", "EOP", "DCN", "CRP", "FNV"}
      [] state = "IV_PPS_NULL" -> {"MCF", "PPR", "RNR", "DCN", "CRP", "FNV"}
      [] state = "IV_PPS_Q" -> {"MCF", "RNR", "PIP", "PIN", "PPR", "DCN", "CRP", "FNV"}
      [] state = "IV_PPS_RNR" -> {"MCF", "RNR", "PIP", "PIN", "DCN", "CRP", "FNV"}
      [] state = "IV_CTC" -> {"CTR", "CRP", "FNV"}
      [] state = "IV_EOR" -> {"RNR", "PIN", "ERR", "CRP", "FNV"}
      [] state = "IV_EOR_RNR" -> {"RNR", "PIN", "ERR", "DCN", "CRP", "FNV"}
      [] state = "CALL_FINISHED" -> {}
      [] OTHER -> {"CRP", "FNV"}

\* The final frames of the far end, one of each type.
StrayFrames ==
    {Simple(f) : f \in {"CFR", "MCF", "RNR", "CTR", "DCN"}}
    \cup {FarDIS(TRUE, V29Modems), FarPPR(Slots, PPR_FRAME_LEN)}

\* A final frame of a type that the handler of the state does not know.
Unrecognised(old, new, fr) ==
    /\ fr.final /\ fr.fcf \notin Recognised(old.state)
    /\ new = Accept(old, fr)

\* C16 as stated: in every state a final frame of a type that the state's
\* handler does not recognise sets current_status to UNEXPECTED and has DCN
\* sent.
UnrecognisedGetsDcn ==
    [][\A fr \in StrayFrames :
          Unrecognised(s, s', fr) =>
              s'.current_status = "UNEXPECTED" /\ Sent(s', "DCN")]_vars

\* The status that the handler of each state sets for such a frame.
UnrecognisedStatus(state) ==
    CASE state = "T" -> "NODISTX"
      [] state \in {"IV_PPS_NULL", "IV_PPS_Q"} -> "ECMPHDTX"
      [] OTHER -> "UNEXPECTED"

\* C16: a final frame of a type that the state's handler does not recognise
\* has DCN sent and takes the session to state C, with current_status
\* UNEXPECTED, or NODISTX when the state was T and ECMPHDTX when it was
\* IV_PPS_NULL or IV_PPS_Q; in CALL_FINISHED it is ignored.
UnrecognisedHandled ==
    [][\A fr \in StrayFrames :
          Unrecognised(s, s', fr) =>
              IF s.state = "CALL_FINISHED"
              THEN /\ s'.tx = <<>> /\ s'.state = s.state
                   /\ s'.current_status = s.current_status
              ELSE /\ s'.tx = <<Frame("DCN", IF s.dis_received THEN 1 ELSE 0,
                                       TRUE, 3, "", <<>>, {})>>
                   /\ s'.state = "C"
                   /\ s'.current_status = UnrecognisedStatus(s.state)]_vars

\* DCN has been sent for a frame that was not expected, after the session
\* had left state T.
UnrecognisedAnswered ==
    s.state = "C" /\ s.current_status = "UNEXPECTED" /\ Sent(s, "DCN") /\ s.dis_received

(***************************************************************************)
(* Sessions of every capability, and far ends of every capability: the     *)
(* answering side sends its DIS, the calling side takes the far end's DIS  *)
(* and answers with its DCS.                                               *)
(***************************************************************************)
CapModems == {{}, {"V27TER"}, {"V29"}, V29Modems, {"V17"}, {"V27TER", "V29", "V17"}}

CapCompressions == {{"T4_1D"}, {"T4_1D", "T4_2D"}, {"T4_1D", "T4_2D", "T6"}}

CapImageSizes ==
    {{"215MM"}, {"215MM", "B4", "UNLIMITED"}, {"215MM", "255MM", "303MM", "B4", "US_LETTER"}}

CapResolutions == {{"STANDARD", "R8"}, {"STANDARD", "R8", "FINE", "R16", "600_1200"}}

CapIaf == {{}, {"CONTINUOUS_FLOW"}}

CapParams ==
    [supported_modems : CapModems, ecm_allowed : BOOLEAN,
     supported_compressions : CapCompressions,
     supported_image_sizes : CapImageSizes,
     caps : {<<r, i>> \in CapResolutions \X CapIaf :
                 (r = {"STANDARD", "R8"}) <=> (i = {})}]

\* The session after the application has set the capabilities P.
CapEngine(calling, P) ==
    LET a == t30_init(Cfg(calling, FALSE, V29Modems, 1, 1))
        b == t30_set_iaf_mode(a, P.caps[2])
        c == t30_set_supported_modems(b, P.supported_modems)
        d == t30_set_supported_compressions(c, P.supported_compressions)
        e == t30_set_supported_resolutions(d, P.caps[1])
        f == t30_set_supported_image_sizes(e, P.supported_image_sizes)
    IN t30_set_ecm_capability(f, P.ecm_allowed)

\* The DIS of an engine of the same kind whose capabilities are P.
CapDIS(P) == send_dis_or_dtc_sequence(CapEngine(FALSE, P)).last_tx

\* The DIS of a far end that asks for the minimum scan line time of the
\* given code (the three bits from 21): an engine of the same kind asks
\* for T30_MIN_SCAN_0MS, a far end of another make for what it needs.
WithMinScan(fr, code) ==
    [fr EXCEPT !.b[3] = (@ % 16) + 16 * code + 128 * (@ \div 128)]

FarMinScan == {T30_MIN_SCAN_0MS, 0}

\* The capabilities of the calling sides: everything, the defaults of
\* t30_init, and the least.
CapLocal ==
    {P \in CapParams :
        /\ P.supported_image_sizes = {"215MM"} /\ P.caps[2] = {}
        /\ \/ P.supported_modems = {"V27TER", "V29", "V17"} /\ P.ecm_allowed
              /\ "T6" \in P.supported_compressions
           \/ P.supported_modems = V29Modems /\ ~P.ecm_allowed
              /\ P.supported_compressions = {"T4_1D", "T4_2D"}
           \/ P.supported_modems = {"V27TER"} /\ P.ecm_allowed
              /\ P.supported_compressions = {"T4_1D"}}

\* The far end's DIS reaches a calling side that waits for it.  far_caps
\* are the capabilities the far end built its DIS from.
CapHdlcAccept ==
    /\ Live(s) /\ s.state = "T" /\ s.far_dis # NoFrame
    /\ s' = Accept(s, s.far_dis)

CapInit ==
    \/ \E P \in CapParams : s = CapEngine(FALSE, P)
    \/ \E L \in CapLocal, P \in CapParams, code \in FarMinScan :
           s = [CapEngine(TRUE, L) EXCEPT !.far_caps = P,
                                          !.far_dis = WithMinScan(CapDIS(P), code)]

CapNext ==
    \/ TimerUpdate
    \/ SendComplete
    \/ CapHdlcAccept

CapSpec == CapInit /\ [][CapNext]_vars

(***************************************************************************)
(* A session that sends one page with ECM, whose application has set a     *)
(* phase D handler, so that a procedure interrupt starts T3.               *)
(***************************************************************************)
TimerFrames ==
    {Simple(f) : f \in {"CFR", "MCF", "RNR", "PIP"}}
    \cup {FarDIS(TRUE, V29Modems), NonFinal("CSI")}

TimerHdlcAccept == HdlcAcceptFrom(TimerFrames)

\* The V.21 receiver reports the first good framing of a signal.
HdlcFramingOk ==
    Live(s) /\ s' = Done(s, t30_hdlc_accept_special(Enter(s), "FRAMING_OK"))

TimerInit ==
    s = t30_init([Cfg(TRUE, TRUE, V29Modems, 1, 1) EXCEPT !.phase_d_handler = TRUE])

TimerNext ==
    \/ Terminate
    \/ TimerUpdate
    \/ SendComplete
    \/ TimerHdlcAccept
    \/ HdlcCarrier
    \/ HdlcFramingOk

TimerSpec == TimerInit /\ [][TimerNext]_vars

(***************************************************************************)
(* Sessions of both sides with ECM whose application has set an identity   *)
(* and an NSF, so that every kind of frame is sent.                        *)
(***************************************************************************)
HdrFrames(calling) ==
    IF calling
    THEN {Simple(f) : f \in {"CFR", "MCF"}}
         \cup {FarDIS(TRUE, V29Modems), FarPPR({0}, PPR_FRAME_LEN)}
    ELSE {FarDCS(TRUE), FarPPS("EOP", 0), FarPPS("EOP", 1), FarFCD(0),
          Frame("RCP", 0, FALSE, 3, "", <<>>, {})}

HdrHdlcAccept == HdlcAcceptFrom(HdrFrames(s.calling_party))

HdrInit ==
    \E calling \in BOOLEAN :
        s = t30_init([Cfg(calling, TRUE, V29Modems, 1, 1) EXCEPT
                          !.local_ident = TRUE, !.local_nsf_len = 1])

HdrNext ==
    \/ SendComplete
    \/ HdrHdlcAccept
    \/ NonEcmSpecial
    \/ NonEcmPutChunk

HdrSpec == HdrInit /\ [][HdrNext]_vars

(***************************************************************************)
(* Timer expiry.  A tick of t30_timer_update in which exactly one of the   *)
(* timers runs out.                                                        *)
(***************************************************************************)
Expires(v, samples) == v > 0 /\ v <= samples

Tick(samples) ==
    /\ Live(s) /\ s.retries < MaxRetries
    /\ s' = Done(s, t30_timer_update(Enter(s), samples))

OnlyT0(samples) ==
    /\ Expires(s.timer_t0_t1, samples) /\ ~s.far_end_detected
    /\ ~Expires(s.timer_t2_t4, samples) /\ ~Expires(s.timer_t3, samples)
    /\ ~Expires(s.timer_t5, samples)

OnlyT1(samples) ==
    /\ Expires(s.timer_t0_t1, samples) /\ s.far_end_detected
    /\ ~Expires(s.timer_t2_t4, samples) /\ ~Expires(s.timer_t3, samples)
    /\ ~Expires(s.timer_t5, samples)

OnlyT2(samples) ==
    /\ Expires(s.timer_t2_t4, samples) /\ ~s.timer_is_t4
    /\ ~Expires(s.timer_t0_t1, samples) /\ ~Expires(s.timer_t3, samples)
    /\ ~Expires(s.timer_t5, samples)

OnlyT3(samples) ==
    /\ Expires(s.timer_t3, samples)
    /\ ~Expires(s.timer_t0_t1, samples) /\ ~Expires(s.timer_t2_t4, samples)
    /\ ~Expires(s.timer_t5, samples)

OnlyT5(samples) ==
    /\ Expires(s.timer_t5, samples)
    /\ ~Expires(s.timer_t0_t1, samples) /\ ~Expires(s.timer_t2_t4, samples)
    /\ ~Expires(s.timer_t3, samples)

T2Statuses == {"T2EXPFAXRX", "T2EXPMPSRX", "T2EXPRRRX", "T2EXPRX"}

\* The session has been taken to disconnect: directly (state B) or by
\* sending DCN (state C), and nothing but DCN was sent.
Disconnecting(st) ==
    /\ st.state \in {"B", "C"}
    /\ \A i \in 1..Len(st.tx) : st.tx[i].fcf = "DCN"

T2Status(old) ==
    CASE old.state \in {"F_DOC_ECM", "F_DOC_NON_ECM"} -> "T2EXPFAXRX"
      [] old.state \in {"F_POST_DOC_ECM", "F_POST_DOC_NON_ECM"} -> "T2EXPMPSRX"
      [] old.state \in {"IV_PPS_RNR", "IV_EOR_RNR"} -> "T2EXPRRRX"
      [] old.state = "R" -> "T2EXPRX"
      [] OTHER -> old.current_status

\* The session goes back to offering to receive: state R, and the DIS or
\* DTC sequence is started.
Reoffers(st) ==
    /\ st.state = "R"
    /\ Len(st.tx) > 0
    /\ st.tx[Len(st.tx)].fcf \in {"DIS", "DTC"}

SentOctet(fr, i) ==
    CASE i = 0 -> fr.addr
      [] i = 1 -> fr.ctrl
      [] i = 2 -> (IF fr.fcf = "DCS" THEN 130 ELSE 128) + fr.x
      [] OTHER -> fr.b[i - 2]

TopBit(octet) == octet >= 128

CapabilityFramesSent == {s.tx[k] : k \in {k \in 1..Len(s.tx) : s.tx[k].fcf \in {"DIS", "DCS"}}}

\* C18: in every DIS, DTC and DCS sent, for every octet index below the
\* length, the top bit of the octet is set iff the octet is not the last.
ExtensionBitsEveryOctet ==
    \A fr \in CapabilityFramesSent :
        \A i \in 0..(fr.len - 1) : TopBit(SentOctet(fr, i)) <=> (i < fr.len - 1)

\* C18 (amended): the same of the octets from index 5 on, which are the
\* ones that carry an extension bit; octets 0 to 4 are sent as built.
ExtensionBitsFromOctet5 ==
    \A fr \in CapabilityFramesSent :
        /\ fr.len \in 5..19
        /\ Len(fr.b) = fr.len - 3
        /\ \A i \in 5..(fr.len - 1) : TopBit(SentOctet(fr, i)) <=> (i < fr.len - 1)

\* A pruned DIS or DTC was sent that is shorter than it was built and has
\* an octet of nothing but the extension bit before its last one.
PrunedDisSent ==
    \E fr \in CapabilityFramesSent :
        /\ fr.fcf = "DIS" /\ fr.len \in 8..18
        /\ \E i \in 5..(fr.len - 2) : SentOctet(fr, i) = 128

(***************************************************************************)
(* The round trip of the capabilities: built into a DIS, pruned, sent, and *)
(* read by the far end's process_rx_dis_dtc and build_dcs.                 *)
(***************************************************************************)
\* The local copy of the message, padded to the maximum length with zeros.
PaddedCopy(fr) == [i \in 3..18 |-> Oct(fr, i)]

\* The bit positions that carry a capability: all but the extension bits.
CapabilityBits == {b \in 1..128 : ~(b > 16 /\ b % 8 = 0)}

AllModems == {"V27TER", "V29", "V17"}

\* The calling side has read the far end's DIS.
DisRead == s.calling_party /\ s.far_dis # NoFrame /\ s.dis_received

\* It is capable of everything.
FullyCapable ==
    s.supported_modems = AllModems /\ s.ecm_allowed /\ "T6" \in s.supported_compressions

\* C19: what the receiving side reads from the DIS built from P and pruned
\* is P: a side that is capable of everything is left with the modems of
\* P, ECM iff P allows it, T6 coding iff P supports it and else 2D coding
\* iff P supports it.
CapabilitiesRoundTrip ==
    DisRead /\ FullyCapable =>
        /\ s.current_permitted_modems = s.far_caps.supported_modems
        /\ s.error_correcting_mode = s.far_caps.ecm_allowed
        /\ (s.line_encoding = "T6") <=> ("T6" \in s.far_caps.supported_compressions)
        /\ s.line_encoding # "T6" =>
               ((s.line_encoding = "T4_2D") <=> ("T4_2D" \in s.far_caps.supported_compressions))

\* The modems a DIS built from the set m offers.
ModemsOffered(m) ==
    IF "V17" \in m THEN AllModems ELSE IF m = {} THEN {"V27TER"} ELSE m

\* The bits of the DIS as it was received, but for the three of the scan
\* line time.
BitsRead ==
    {b \in CapabilityBits \ {21, 22, 23} : test_frame_bit(PaddedCopy(s.far_dis), b)}

\* C19 (amended): every capability bit of the frame built from P is read
\* back as it was built; ECM is read as P allows it; the modems read are
\* those of P only when P has no V.17 without V.29 and V.27ter and is not
\* empty; T6 coding is read only if P also allows ECM; of unlimited and B4
\* length the DCS answers the longer.
CapabilitiesReadAsBuilt ==
    DisRead =>
        /\ BitsRead = (dis_dtc_bits(CapEngine(FALSE, s.far_caps)) \cup {9, 10}) \ {21, 22, 23}
        /\ s.error_correcting_mode = (s.ecm_allowed /\ s.far_caps.ecm_allowed)
        /\ s.supported_modems = AllModems =>
               s.current_permitted_modems = ModemsOffered(s.far_caps.supported_modems)
        /\ FullyCapable =>
               /\ (s.line_encoding = "T6") <=>
                      (s.far_caps.ecm_allowed /\ "T6" \in s.far_caps.supported_compressions)
               /\ s.line_encoding # "T6" =>
                      ((s.line_encoding = "T4_2D")
                           <=> ("T4_2D" \in s.far_caps.supported_compressions))
        /\ s.dcs_len > 0 =>
               /\ test_frame_bit(s.dcs_frame, 20)
                      <=> ("UNLIMITED" \in s.far_caps.supported_image_sizes)
               /\ test_frame_bit(s.dcs_frame, 19)
                      <=> ("B4" \in s.far_caps.supported_image_sizes
                           /\ "UNLIMITED" \notin s.far_caps.supported_image_sizes)

\* A side capable of everything has read the DIS of a far end that has
\* V.17, ECM and T6 coding, and answered with its DCS.
FullDisRead ==
    /\ DisRead /\ FullyCapable /\ s.state = "D"
    /\ s.far_caps.supported_modems = AllModems
    /\ s.current_permitted_modems = AllModems
    /\ s.error_correcting_mode /\ s.line_encoding = "T6"
    /\ Len(s.tx) > 0 /\ s.tx[Len(s.tx)].fcf = "DCS"

(***************************************************************************)
(* The address and control octets of the frames sent.                      *)
(***************************************************************************)
\* C20: every frame handed to the send handler has the address octet 0xFF
\* and a control octet of 0x03 or 0x13.
SentFramesHaveHeader ==
    \A k \in 1..Len(s.tx) : s.tx[k].addr = 255 /\ s.tx[k].ctrl \in {3, 19}

\* The frames of an ECM burst, sent from the buffer of the partial page,
\* are on their way with the RCP frames that follow them.
BurstHanded ==
    /\ Len(s.tx) > 0 /\ s.tx[Len(s.tx)].fcf = "RCP"
    /\ <<"FCD", 0>> \in {s.burst[k] : k \in 1..Len(s.burst)}
    /\ s.ecm_hdr[0] = <<255, 3>> /\ s.dcs_hdr = <<255, 19>>

(***************************************************************************)
(* The PPS frame.                                                          *)
(***************************************************************************)
\* The FCD frames of the burst that the PPS last sent closes.
FcdInBurst == Cardinality({k \in 1..Len(s.burst) : s.burst[k][1] = "FCD"})

\* A PPS was sent by this call, as the close of a burst.
PpsCloses ==
    /\ Len(s.tx) > 0 /\ s.tx[Len(s.tx)].fcf = "PPS"
    /\ Len(s.burst) > 0 /\ s.burst[Len(s.burst)][1] = "PPS"

\* C21: the last octet of every PPS is the number of FCD frames sent in
\* the burst minus 1, and 0xFF when no FCD frame was sent in the burst;
\* the two octets before it are the page and the block modulo 256.
PpsCountsBurst ==
    PpsCloses =>
        LET pps == s.tx[Len(s.tx)]
        IN /\ pps.b[4] = (IF FcdInBurst = 0 THEN 255 ELSE FcdInBurst - 1)
           /\ pps.b[2] = s.ecm_page % 256
           /\ pps.b[3] = s.ecm_block % 256

\* What the code sends: 0 when no FCD frame was sent in the burst.
PpsCountsBurstOrZero ==
    PpsCloses =>
        LET pps == s.tx[Len(s.tx)]
        IN /\ pps.b[4] = (IF FcdInBurst = 0 THEN 0 ELSE FcdInBurst - 1)
           /\ pps.b[2] = s.ecm_page % 256
           /\ pps.b[3] = s.ecm_block % 256

\* A PPS closes a burst in which no FCD frame was sent.
PpsOfEmptyBurst == PpsCloses /\ FcdInBurst = 0

(***************************************************************************)
(* Switches into a transmit phase while a receive signal is present.       *)
(***************************************************************************)
TxPhases == {"B_TX", "C_NON_ECM_TX", "C_ECM_TX", "D_TX"}

\* The step enters a transmit phase although the receive signal was present.
TxSwitchUnderSignal ==
    /\ s.rx_signal_present
    /\ s'.phase \in TxPhases
    /\ s'.phase # s.phase

\* The step applies the switch that was waiting for the carrier to drop.
AppliesQueued ==
    /\ s.next_phase = s'.phase
    /\ s'.next_phase = "IDLE"
    /\ ~s'.rx_signal_present

\* C22: a switch into a transmit phase that is made while the receive signal
\* is present is never made at once: it is the queued switch, applied by the
\* step that ends the signal, and it is then no longer queued.  This covers
\* the repeats of the last command after CRP or after T4.
TxSwitchDeferred == [][TxSwitchUnderSignal => AppliesQueued]_vars

\* A switch into a transmit phase is waiting for the carrier to drop.
TxSwitchQueued == s.rx_signal_present /\ s.next_phase \in TxPhases


(***************************************************************************)
(* The slot shared by T0 and T1.                                           *)
(***************************************************************************)
\* The step turns the slot from T0 into T1.
ConvertsToT1 == ~s.far_end_detected /\ s'.far_end_detected

\* The step is the report of HDLC framing from the V.21 receiver.
SignalObserved == s' = Done(s, t30_hdlc_accept_special(Enter(s), "FRAMING_OK"))

\* The step enters a phase in which the engine sends control frames.
EntersControlTx == s'.phase \in {"B_TX", "D_TX"} /\ s'.phase # s.phase

\* The slot runs out in this step while it is still T0, and nothing but
\* T0_EXPIRED and the disconnection comes of it.
T0RunsOut ==
    \A samples \in TickSamples(s) :
        Tick(samples) /\ Expires(s.timer_t0_t1, samples) /\ ~s.far_end_detected =>
            /\ s'.current_status = "T0_EXPIRED"
            /\ ~s'.far_end_detected

\* The slot is reloaded with the time of T1 by the step that converts it, it
\* was running, and once converted it stays converted.
ConvertedOnce ==
    /\ ConvertsToT1 => s.timer_t0_t1 > 0 /\ s'.timer_t0_t1 = ms_to_samples(DEFAULT_TIMER_T1)
    /\ s.far_end_detected => s'.far_end_detected

\* C23: the slot is converted from T0 to T1 by the observation of a valid
\* HDLC signal from the far end and by nothing else; until then its expiry
\* is that of T0; it is converted at most once.
T1OnlyAfterSignal ==
    [][/\ ConvertsToT1 => SignalObserved
       /\ T0RunsOut
       /\ ConvertedOnce]_vars

\* C23 (amended): the slot is converted by the observation of HDLC framing
\* or by the engine's own first entry into phase B_TX or D_TX, whichever
\* comes first; until then its expiry is that of T0; it is converted at
\* most once.
T1AfterSignalOrTx ==
    [][/\ ConvertsToT1 => SignalObserved \/ EntersControlTx
       /\ T0RunsOut
       /\ ConvertedOnce]_vars

\* The caller has seen HDLC framing while it sent CNG: the slot is T1, just
\* reloaded, and nothing has been sent.
T1AfterFraming ==
    /\ s.calling_party /\ s.state = "T" /\ s.phase = "B_RX"
    /\ s.far_end_detected
    /\ s.timer_t0_t1 = ms_to_samples(DEFAULT_TIMER_T1)


(***************************************************************************)
(* Frames the engine does not act on: those with a bad FCS and the         *)
(* non-final frames it does not expect.  crp_enabled is a field the        *)
(* application sets before the call: both settings, for both roles.        *)
(***************************************************************************)
CrpInit ==
    \E calling \in BOOLEAN, crp \in BOOLEAN :
        s = [t30_init(Cfg(calling, TRUE, V29Modems, 1, 1)) EXCEPT !.crp_enabled = crp]

\* Non-final frames the engine has no use for: a DIS without the final
\* flag, PWD with the wrong sender bit (and with the right one, which is
\* decoded), and FCD and RCP frames wherever they arrive.
NonFinalStrays ==
    {NonFinal("DIS"), NonFinal("PWD"), Frame("PWD", 1, FALSE, 23, "", <<>>, {}),
     FarFCD(0), Frame("RCP", 0, FALSE, 3, "", <<>>, {})}

NonFinalHdlcAccept == HdlcAcceptFrom(NonFinalStrays)

CrpNext ==
    \/ SendComplete
    \/ HdrHdlcAccept
    \/ NonFinalHdlcAccept
    \/ HdlcAcceptBad
    \/ NonEcmSpecial
    \/ NonEcmPutChunk

CrpSpec == CrpInit /\ [][CrpNext]_vars

\* The step is the delivery of a frame whose FCS is bad.
BadFcs ==
    \E hdr_ok \in BOOLEAN, len \in {2, 3} :
        s' = Done(s, t30_hdlc_accept(Enter(s), Frame("CFR", 0, TRUE, len, "", <<>>, {}),
                                     FALSE, hdr_ok))

\* Nothing of the session has moved between the two states.
SessionUntouched(old, new) ==
    /\ new.state = old.state /\ new.phase = old.phase /\ new.next_phase = old.next_phase
    /\ new.current_status = old.current_status
    /\ new.retries = old.retries
    /\ new.timer_t0_t1 = old.timer_t0_t1 /\ new.timer_t2_t4 = old.timer_t2_t4
    /\ new.timer_t3 = old.timer_t3 /\ new.timer_t5 = old.timer_t5
    /\ new.timer_is_t4 = old.timer_is_t4
    /\ new.ecm_len = old.ecm_len /\ new.ecm_octet3 = old.ecm_octet3
    /\ new.ecm_hdr = old.ecm_hdr /\ new.ecm_frames = old.ecm_frames
    /\ new.ecm_frame_map = old.ecm_frame_map
    /\ new.ecm_first_bad_frame = old.ecm_first_bad_frame

\* C24: a frame delivered with a bad FCS leaves the state, the phase, the
\* status, the retry counter, every timer and the ECM buffer as they were;
\* nothing is sent for it, except one CRP frame when CRP is enabled.
BadFcsIgnored ==
    [][BadFcs =>
          /\ SessionUntouched(s, s')
          /\ IF s.crp_enabled
             THEN Len(s'.tx) = 1 /\ s'.tx[1].fcf = "CRP"
             ELSE s'.tx = <<>>]_vars

\* A CRP was sent for a bad frame while the command or response timer ran.
CrpSent ==
    /\ s.crp_enabled
    /\ Len(s.tx) = 1 /\ s.tx[1].fcf = "CRP"
    /\ s.timer_t2_t4 > 0


(***************************************************************************)
(* Non-final frames the engine does not recognise.                         *)
(***************************************************************************)
\* The types the non-final branch decodes whatever their sender bit is.
DecodedEitherWay == {"CSI", "NSF", "TSI", "SUB", "SID", "CSA", "TSA", "IRA"}

\* The types it decodes with the sender bit clear only.
DecodedOneWay == {"PWD", "SEP", "PSA", "CIA", "ISP"}

\* The frame is of a type the non-final branch has no case for.
NoCase(fr) == fr.fcf \notin DecodedEitherWay \cup DecodedOneWay \cup {"FCD", "RCP"}

\* The frame is of a type it has a case for, with the sender bit the case
\* does not take.
WrongSender(fr) == fr.fcf \in DecodedOneWay /\ fr.x = 1

\* Image data or its end marker while no ECM document is being received.
StrayData(st, fr) ==
    fr.fcf \in {"FCD", "RCP"} /\ st.state \notin {"F_DOC_ECM", "F_POST_DOC_ECM"}

\* The frame is not answered: nothing is sent, state and phase stay.
NotAnswered ==
    /\ s'.tx = <<>>
    /\ s'.state = s.state /\ s'.phase = s.phase /\ s'.next_phase = s.next_phase

Restart == Live(s) /\ s' = Done(s, t30_restart(Enter(s)))

RestartInit ==
    \E calling \in BOOLEAN : s = t30_init(Cfg(calling, TRUE, V29Modems, 1, 1))

RestartNext ==
    \/ SendComplete
    \/ HdrHdlcAccept
    \/ NonEcmSpecial
    \/ NonEcmPutChunk
    \/ HdlcFramingOk
    \/ Restart

RestartSpec == RestartInit /\ [][RestartNext]_vars

\* The step is a call of t30_restart.
Restarts == s' = Done(s, t30_restart(Enter(s)))

\* C26: right after t30_restart the caller is in state T and phase A_CNG,
\* the answerer in state ANSWERING and phase A_CED; the status is OK,
\* far_end_detected is false and the T0/T1 slot runs as T0.
RestartedPerRole ==
    [][Restarts =>
          /\ s'.calling_party = s.calling_party
          /\ IF s.calling_party
             THEN s'.state = "T" /\ s'.phase = "A_CNG"
             ELSE s'.state = "ANSWERING" /\ s'.phase = "A_CED"
          /\ s'.current_status = "OK"
          /\ ~s'.far_end_detected
          /\ s'.timer_t0_t1 = ms_to_samples(DEFAULT_TIMER_T0)]_vars

\* A caller was restarted after a call in which it had received a DIS.
RestartedAfterCall ==
    /\ s.calling_party /\ s.state = "T" /\ s.phase = "A_CNG"
    /\ s.dis_received
    /\ ~s.far_end_detected /\ s.timer_t0_t1 = ms_to_samples(DEFAULT_TIMER_T0)


(***************************************************************************)
(* The resolution and the width of the page against the received DIS.      *)
(* The page is what the T.4 source reports: its two resolutions and the    *)
(* width that goes with the horizontal one.                                *)
(***************************************************************************)
DcsPages ==
    {<<"R8", "STANDARD", "R8_A4">>, <<"R8", "FINE", "R8_A4">>,
     <<"R8", "STANDARD", "R8_B4">>, <<"R8", "FINE", "R8_A3">>,
     <<"R16", "SUPERFINE", "R16_A4">>, <<"300", "300", "300_A4">>,
     <<"600", "600", "600_A4">>, <<"600", "1200", "600_B4">>}

AllResolutions ==
    {"STANDARD", "R8", "FINE", "SUPERFINE", "R16", "300_300", "300_600", "600_600",
     "600_1200", "1200_1200", "400_800"}

DcsResolutions ==
    {{"STANDARD", "R8"}, {"STANDARD", "R8", "FINE", "R16", "600_1200"}, AllResolutions}

DcsImageSizes == {{"215MM"}, {"215MM", "255MM"}, {"215MM", "255MM", "303MM"}}

\* Capabilities with the given resolutions and widths, the rest as t30_init
\* leaves it.
DcsCaps(res, sizes) ==
    [supported_modems |-> V29Modems, ecm_allowed |-> FALSE,
     supported_compressions |-> {"T4_1D", "T4_2D"},
     supported_image_sizes |-> sizes, caps |-> <<res, {}>>]

DcsInit ==
    \E page \in DcsPages, own \in {1, 3}, res \in DcsResolutions, sizes \in DcsImageSizes :
        LET mine == DcsCaps(AllResolutions,
                            IF own = 1 THEN {"215MM"} ELSE {"215MM", "255MM", "303MM"})
            far == DcsCaps(res, sizes)
        IN s = [CapEngine(TRUE, mine) EXCEPT !.t4_x_resolution = page[1],
                                             !.t4_y_resolution = page[2],
                                             !.t4_image_width = page[3],
                                             !.far_caps = far,
                                             !.far_dis = CapDIS(far)]

DcsNext ==
    \/ TimerUpdate
    \/ SendComplete
    \/ CapHdlcAccept

DcsSpec == DcsInit /\ [][DcsNext]_vars

\* The bits of a DIS and of a DCS that stand for a resolution or a width.
ResolutionBits == {15, 41, 42, 43, 105, 106, 107, 108, 109}

WidthBits == {17, 18}

\* The DIS advertises what bit n of a DCS stands for: the same bit for a
\* resolution; for the width of 255 mm either width bit, as the DIS that
\* offers 303 mm offers 255 mm with it.
Advertised(dis, n) ==
    IF n = 17 THEN test_frame_bit(dis, 17) \/ test_frame_bit(dis, 18)
    ELSE test_frame_bit(dis, n)

\* The bit of a DCS for the resolution of the source page: none for the
\* standard one.
PageResolutionBits(st) ==
    LET x == st.t4_x_resolution
        y == st.t4_y_resolution
    IN CASE y = "FINE" -> {15}
         [] y = "SUPERFINE" -> (IF x = "R16" THEN {43} ELSE {41})
         [] y = "300" -> {42}
         [] y = "600" -> (IF x = "300" THEN {107} ELSE {105})
         [] y = "800" -> {108}
         [] y = "1200" -> (IF x = "600" THEN {109} ELSE {106})
         [] OTHER -> {}

PageWidthBits(st) ==
    CASE st.t4_image_width \in WidthsOfSize("_B4") -> {17}
      [] st.t4_image_width \in WidthsOfSize("_A3") -> {18}
      [] OTHER -> {}

\* The received DIS advertises the resolution and the width of the page.
PageAdvertised(st) ==
    \A n \in PageResolutionBits(st) \cup PageWidthBits(st) :
        Advertised(PaddedCopy(st.far_dis), n)

DcsSentNow(st) == {i \in 1..Len(st.tx) : st.tx[i].fcf = "DCS"}

\* C27: a caller that holds a document and has accepted a DIS sends a DCS
\* only if the DIS advertises the resolution and the width of the page, and
\* every resolution and width bit of that DCS is advertised by the DIS; if
\* the DIS does not advertise them the status is NORESSUPPORT or
\* NOSIZESUPPORT, DCN is sent (state C, and from there B) and no DCS.
DcsWithinDis ==
    s.calling_party /\ s.far_dis # NoFrame =>
        /\ \A i \in DcsSentNow(s) :
               /\ PageAdvertised(s)
               /\ \A n \in ResolutionBits \cup WidthBits :
                      test_frame_bit(PaddedCopy(s.tx[i]), n) =>
                          Advertised(PaddedCopy(s.far_dis), n)
        /\ s.dis_received /\ ~PageAdvertised(s) =>
               /\ s.current_status \in {"NORESSUPPORT", "NOSIZESUPPORT"}
               /\ s.state \in {"C", "B", "CALL_FINISHED"}
               /\ DcsSentNow(s) = {}

\* A DCS for a page of fine resolution went to a far end that offers it.
DcsForFinePage ==
    /\ s.calling_party /\ s.far_dis # NoFrame /\ s.dis_received
    /\ s.t4_y_resolution = "FINE" /\ PageAdvertised(s)
    /\ \E i \in DcsSentNow(s) : test_frame_bit(PaddedCopy(s.tx[i]), 15)


(***************************************************************************)
(* The choice of the modem after a DIS: every set of modems the            *)
(* application can enable, against every set a far end can offer.          *)
(***************************************************************************)
ModemFamilies == {"V17", "V29", "V27TER"}

\* Capabilities with the given modems, the rest as t30_init leaves it.
ModemCaps(modems) ==
    [supported_modems |-> modems, ecm_allowed |-> FALSE,
     supported_compressions |-> {"T4_1D", "T4_2D"},
     supported_image_sizes |-> {"215MM"}, caps |-> <<{"STANDARD", "R8"}, {}>>]

FallbackInit ==
    \E mine \in SUBSET ModemFamilies \ {{}}, theirs \in SUBSET ModemFamilies :
        s = [CapEngine(TRUE, ModemCaps(mine)) EXCEPT
                 !.far_caps = ModemCaps(theirs),
                 !.far_dis = CapDIS(ModemCaps(theirs))]

FallbackNext ==
    \/ TimerUpdate
    \/ SendComplete
    \/ CapHdlcAccept

FallbackSpec == FallbackInit /\ [][FallbackNext]_vars

\* The modem families a DIS advertises in its bits 11 to 14.
FarFamilies(dis) ==
    LET code == ((Oct(dis, 4) \div 4) % 16) * 4
    IN CASE code = 44 -> {"V17", "V29", "V27TER"}
         [] code = 12 -> {"V29", "V27TER"}
         [] code = 8 -> {"V27TER"}
         [] code = 0 -> {"V27TER"}
         [] code = 4 -> {"V29"}
         [] OTHER -> {}

\* The rows of the fallback table that both sides can use.
UsableRows(st) ==
    {i \in 0..7 : fallback_sequence[i].which \in
                      st.supported_modems \cap FarFamilies(st.far_dis)}

\* The DIS was accepted and a modem was chosen for the call.
ModemChosen ==
    /\ s.calling_party /\ s.far_dis # NoFrame /\ s.dis_received
    /\ s.current_status # "INCOMPATIBLE"

\* C28: once a DIS is accepted the selected row of the fallback table is
\* the first one whose modem family is advertised in the DIS and enabled
\* locally; a row of a family that is disabled locally or not advertised is
\* never selected.
FallbackHighestCommon ==
    ModemChosen =>
        /\ UsableRows(s) # {}
        /\ s.current_fallback \in UsableRows(s)
        /\ \A i \in UsableRows(s) : s.current_fallback <= i

\* V.17 was chosen with a far end that offers it.
FallbackV17Chosen ==
    /\ ModemChosen /\ s.state = "D"
    /\ s.current_fallback = T30_V17_FALLBACK_START
    /\ "V17" \in s.supported_modems \cap FarFamilies(s.far_dis)


(***************************************************************************)
(* The quality of a page received without ECM: pages on both sides of the  *)
(* two limits and on them, and a page of no rows.                          *)
(***************************************************************************)
QualityStats ==
    {[bad_rows |-> b, length |-> 100] : b \in {1, 2, 4, 5}}
    \cup {[bad_rows |-> 0, length |-> 0]}

QualityInit ==
    \E q \in QualityStats :
        s = [t30_init(Cfg(FALSE, FALSE, V29Modems, 1, 1)) EXCEPT !.t4_stats = q]

QualityNext ==
    \/ SendComplete
    \/ PageHdlcAccept
    \/ NonEcmSpecial
    \/ NonEcmPutChunk

QualitySpec == QualityInit /\ [][QualityNext]_vars

\* The step is the reception of one of the post-page commands that are
\* answered at once, after a page received without ECM.
PageJudged(fcf) ==
    /\ s.state = "F_POST_DOC_NON_ECM"
    /\ s' = Accept(s, Simple(fcf))

\* The one frame sent in the step.
AnswerIs(fcf) == Len(s'.tx) = 1 /\ s'.tx[1].fcf = fcf

\* C29: a page with at most 2% of bad rows is good, one with at most 5% is
\* poor, one with more is bad, the limits included; the answers are MCF,
\* RTP and RTN.
QualityLimitsIncluded ==
    [][\A fcf \in {"MPS", "EOM", "EOP"} : PageJudged(fcf) =>
          LET bad == s.t4_stats.bad_rows
              length == s.t4_stats.length
          IN IF bad * 100 <= 2 * length THEN AnswerIs("MCF")
             ELSE IF bad * 100 <= 5 * length THEN AnswerIs("RTP")
             ELSE AnswerIs("RTN")]_vars

\* C29 (amended): a page with less than 2% of bad rows is good, one with
\* less than 5% is poor, every other page is bad: a page with exactly 2% is
\* poor, one with exactly 5% is bad, and so is a page of no rows.
QualityLimitsExcluded ==
    [][\A fcf \in {"MPS", "EOM", "EOP"} : PageJudged(fcf) =>
          LET bad == s.t4_stats.bad_rows
              length == s.t4_stats.length
          IN IF bad * 100 < 2 * length THEN AnswerIs("MCF")
             ELSE IF bad * 100 < 5 * length THEN AnswerIs("RTP")
             ELSE AnswerIs("RTN")]_vars

\* A page with exactly 2% of bad rows was answered with RTP.
TwoPercentAnswered ==
    /\ s.t4_stats.bad_rows * 100 = 2 * s.t4_stats.length /\ s.t4_stats.length > 0
    /\ s.state = "III_Q_RTP"
    /\ Len(s.tx) = 1 /\ s.tx[1].fcf = "RTP"


(***************************************************************************)
(* The Bell MF receiver (bell_r2_mf.c).  In BellSpec the variable s holds  *)
(* a bell_mf_rx_state_t: the history of hits, the count of digits in the   *)
(* buffer and the count of digits lost.  The decision of each block of     *)
(* 120 samples is the input: "NONE" stands for hit = 0, no valid pair of   *)
(* tones.  past is the record of the last six decisions, the newest last,  *)
(* and emitted the digit the last block put into the buffer, if any.       *)
(***************************************************************************)
MAX_BELL_MF_DIGITS == 128

MaxLost == 2

BellHits == {"NONE", "1", "*"}

bell_mf_rx_init(callback) ==
    [hits |-> [i \in 0..4 |-> "NONE"], callback |-> callback,
     current_digits |-> 0, lost_digits |-> 0,
     past |-> [i \in 1..6 |-> "NONE"], emitted |-> "NONE"]

\* The end of a detection block whose decision is hit.
bell_mf_rx(st, hit) ==
    LET found == /\ hit # "NONE"
                 /\ hit = st.hits[4] /\ hit = st.hits[3]
                 /\ \/ hit # "*" /\ hit # st.hits[2] /\ hit # st.hits[1]
                    \/ hit = "*" /\ hit = st.hits[2] /\ hit # st.hits[1] /\ hit # st.hits[0]
        stored == found /\ st.current_digits < MAX_BELL_MF_DIGITS
        a == IF stored
             THEN [st EXCEPT !.current_digits = IF st.callback THEN 0 ELSE @ + 1]
             ELSE IF found THEN [st EXCEPT !.lost_digits = @ + 1]
             ELSE st
    IN [a EXCEPT !.hits = [i \in 0..4 |-> IF i < 4 THEN st.hits[i + 1] ELSE hit],
                 !.past = [i \in 1..6 |-> IF i < 6 THEN st.past[i + 1] ELSE hit],
                 !.emitted = IF stored THEN hit ELSE "NONE"]

bell_mf_rx_get(st, max) ==
    LET n == IF max > st.current_digits THEN st.current_digits ELSE max
    IN [st EXCEPT !.current_digits = @ - n]

BellBlock ==
    \E hit \in BellHits :
        /\ s.lost_digits < MaxLost
        /\ s' = bell_mf_rx(s, hit)

BellGet ==
    \E max \in {1, MAX_BELL_MF_DIGITS} :
        /\ s.current_digits > 0
        /\ s' = bell_mf_rx_get(s, max)

BellInit == \E callback \in BOOLEAN : s = bell_mf_rx_init(callback)

BellNext == BellBlock \/ BellGet

BellSpec == BellInit /\ [][BellNext]_vars

\* The decision of the block k blocks before the last one.
Back(k) == s.past[6 - k]

\* C30: a digit d other than KP is emitted at a block iff that block and
\* the one before it are hits equal to d and the two blocks before those
\* differ from d; KP is emitted iff that block and the three before it are
\* KP and the two before those differ from KP; nothing is emitted otherwise.
BellTwoBlocksEmit ==
    \A d \in BellHits \ {"NONE"} :
        s.emitted = d <=>
            IF d = "*"
            THEN /\ \A k \in 0..3 : Back(k) = d
                 /\ Back(4) # d /\ Back(5) # d
            ELSE /\ Back(0) = d /\ Back(1) = d
                 /\ Back(2) # d /\ Back(3) # d

\* The blocks that make the code find the digit d.
BellPattern(d) ==
    IF d = "*"
    THEN /\ \A k \in 0..3 : Back(k) = d
         /\ Back(4) # d /\ Back(5) # d
    ELSE /\ \A k \in 0..2 : Back(k) = d
         /\ Back(3) # d /\ Back(4) # d

\* What the code does for a digit other than KP: it is emitted only when
\* the block and the two before it are equal to d and the two before those
\* differ, and then it is emitted unless the buffer was full and the digit
\* was counted as lost.
BellThreeBlocksEmit ==
    \A d \in BellHits \ {"NONE"} :
        /\ s.emitted = d => BellPattern(d)
        /\ BellPattern(d) => s.emitted = d \/ (~s.callback /\ s.lost_digits > 0)

\* KP was emitted after four blocks of it.
BellKpEmitted == s.emitted = "*" /\ \A k \in 0..3 : Back(k) = "*"

\* ---------------------------------------------------------------------------
\* The decision at the end of a detection block (Bell MF and R2 MF).
\* Energies are in units of 1e8; the relative peak of 12.6 is kept as 126/10.

BELL_MF_THRESHOLD == 16

BELL_MF_TWIST == 4

R2_MF_THRESHOLD == 5

R2_MF_TWIST == 5

MF_RELATIVE_PEAK_X10 == 126

bell_mf_positions == <<"1", "2", "4", "7", "C", "-", "3", "5", "8", "A", "-", "-", "6",
                       "9", "*", "-", "-", "-", "0", "B", "-", "-", "-", "-", "#">>

r2_mf_positions == <<"1", "2", "4", "7", "B", "-", "3", "5", "8", "C", "-", "-", "6",
                     "9", "D", "-", "-", "-", "0", "E", "-", "-", "-", "-", "F">>

\* A variant of the scan that forgets to hand the old best to second_best.
mf_two_highest_keep_second(energy) ==
    LET first == IF energy[0] > energy[1] THEN <<0, 1>> ELSE <<1, 0>>
        step(bs, i) == IF energy[i] >= energy[bs[1]] THEN <<i, bs[2]>>
                       ELSE IF energy[i] >= energy[bs[2]] THEN <<bs[1], i>>
                       ELSE bs
    IN step(step(step(step(first, 2), 3), 4), 5)

\* <<best, second_best>> after the scan of the six energies.
mf_two_highest(energy) ==
    LET first == IF energy[0] > energy[1] THEN <<0, 1>> ELSE <<1, 0>>
        step(bs, i) == IF energy[i] >= energy[bs[1]] THEN <<i, bs[1]>>
                       ELSE IF energy[i] >= energy[bs[2]] THEN <<bs[1], i>>
                       ELSE bs
    IN step(step(step(step(first, 2), 3), 4), 5)

\* The level, twist and relative peak tests, and the table look-up.  index is
\* the C index into the table, -1 when the block is no hit.
mf_block(kind, energy, threshold, twist, positions) ==
    LET bs == mf_two_highest(energy)
        best == bs[1]
        second_best == bs[2]
        basic == /\ energy[best] >= threshold
                 /\ energy[second_best] >= threshold
                 /\ energy[best] < energy[second_best] * twist
                 /\ energy[best] * twist > energy[second_best]
        hit == /\ basic
               /\ \A i \in 0..5 :
                     i # best /\ i # second_best
                         => ~(energy[i] * MF_RELATIVE_PEAK_X10 >= energy[second_best] * 10)
        low == IF second_best < best THEN second_best ELSE best
        high == IF second_best < best THEN best ELSE second_best
        index == low * 5 + high - 1
    IN [kind |-> kind, energy |-> energy, best |-> best, second_best |-> second_best,
        hit |-> hit, index |-> IF hit THEN index ELSE -1,
        digit |-> IF ~hit THEN "NONE"
                  ELSE IF index + 1 \in DOMAIN positions THEN positions[index + 1]
                  ELSE "OUTSIDE",
        blocks |-> 1]

bell_mf_block(energy) ==
    mf_block("BELL", energy, BELL_MF_THRESHOLD, BELL_MF_TWIST, bell_mf_positions)

r2_mf_block(energy) ==
    mf_block("R2", energy, R2_MF_THRESHOLD, R2_MF_TWIST, r2_mf_positions)

BellLevels == {0, 1, 2, 16, 63, 64}

R2Levels == {0, 1, 4, 5, 24, 25}

\* The energies of a block that is about to end.
MfPending(kind, energy) ==
    [kind |-> kind, energy |-> energy, best |-> 1, second_best |-> 0,
     hit |-> FALSE, index |-> -1, digit |-> "NONE", blocks |-> 0]

BellBlockEnd == s.kind = "BELL" /\ s.blocks = 0 /\ s' = bell_mf_block(s.energy)

R2BlockEnd == s.kind = "R2" /\ s.blocks = 0 /\ s' = r2_mf_block(s.energy)

MfInit ==
    \/ \E energy \in [0..5 -> BellLevels] : s = MfPending("BELL", energy)
    \/ \E energy \in [0..5 -> R2Levels] : s = MfPending("R2", energy)

MfNext == BellBlockEnd \/ R2BlockEnd

MfSpec == MfInit /\ [][MfNext]_vars

MfThreshold == IF s.kind = "BELL" THEN BELL_MF_THRESHOLD ELSE R2_MF_THRESHOLD

MfTwist == IF s.kind = "BELL" THEN BELL_MF_TWIST ELSE R2_MF_TWIST

MfPositions == IF s.kind = "BELL" THEN bell_mf_positions ELSE r2_mf_positions

\* The two indices hold the largest and the second-largest energy.
TwoLargest ==
    /\ s.best # s.second_best
    /\ \A i \in 0..5 : s.energy[i] <= s.energy[s.best]
    /\ \A i \in 0..5 \ {s.best} : s.energy[i] <= s.energy[s.second_best]

\* The conditions of a hit, as the specification lists them.
HitConditions ==
    /\ s.energy[s.best] >= MfThreshold
    /\ s.energy[s.second_best] >= MfThreshold
    /\ s.energy[s.best] < MfTwist * s.energy[s.second_best]
    /\ s.energy[s.second_best] < MfTwist * s.energy[s.best]
    /\ \A i \in 0..5 \ {s.best, s.second_best} :
          MF_RELATIVE_PEAK_X10 * s.energy[i] < 10 * s.energy[s.second_best]

\* C31: at the end of a block, of Bell MF and of R2 MF, best and second_best
\* are the indices of the largest and the second-largest of the six
\* energies; the block is a hit iff both reach the threshold, each is less
\* than twist times the other, and relative_peak times every other energy is
\* below energy[second_best]; on a hit the digit is positions[low*5 + high - 1]
\* for the two indices low < high, and that index lies within the table.
MfBlockDecision ==
    s.blocks > 0 =>
        /\ TwoLargest
        /\ s.hit <=> HitConditions
        /\ s.hit =>
              LET low == IF s.best < s.second_best THEN s.best ELSE s.second_best
                  high == IF s.best < s.second_best THEN s.second_best ELSE s.best
              IN /\ s.index = low * 5 + high - 1
                 /\ s.index \in 0..(Len(MfPositions) - 1)
                 /\ s.digit = MfPositions[s.index + 1]
                 /\ s.digit # "-"
        /\ ~s.hit => s.digit = "NONE"

\* A hit whose largest energy was met after its second largest, with a tie
\* among the energies below them.
MfHitFound ==
    /\ s.blocks > 0 /\ s.hit /\ s.kind = "R2"
    /\ s.best > s.second_best
    /\ s.digit = "F"

\* ---------------------------------------------------------------------------
\* The R2 MF receiver: r2_mf_rx over calls of any number of samples.  The
\* energies of a block are an input drawn when the block ends.  ret is the
\* value of the last call, latest the decision of the latest completed block,
\* completed whether the last call completed a block.

r2_mf_rx_init(fwd) ==
    [fwd |-> fwd, samples |-> 133, current_sample |-> 0,
     ret |-> "NONE", latest |-> "NONE", completed |-> FALSE, called |-> FALSE]

\* The number of blocks that a call with the given number of samples ends.
R2BlocksEnded(st, samples) == (st.current_sample + samples) \div st.samples

\* One call: energies[k] are the energies of the k-th block the call ends.
r2_mf_rx(st, energies, samples) ==
    LET n == R2BlocksEnded(st, samples)
        hit_char == IF n = 0 THEN "NONE" ELSE r2_mf_block(energies[n]).digit
    IN [st EXCEPT !.current_sample = (st.current_sample + samples) % st.samples,
                  !.ret = hit_char,
                  !.latest = IF n = 0 THEN @ ELSE r2_mf_block(energies[n]).digit,
                  !.completed = n > 0,
                  !.called = TRUE]

\* Silence, the tone pair of '1' and the tone pair of 'F'.
R2Tones ==
    {[i \in 0..5 |-> 0],
     [i \in 0..5 |-> IF i \in {0, 1} THEN 24 ELSE 0],
     [i \in 0..5 |-> IF i \in {4, 5} THEN 25 ELSE 1]}

R2SampleCounts == {60, 133, 160, 300}

R2Feed ==
    \E samples \in R2SampleCounts :
        \E energies \in [1..R2BlocksEnded(s, samples) -> R2Tones] :
            s' = r2_mf_rx(s, energies, samples)

R2Init == \E fwd \in BOOLEAN : s = r2_mf_rx_init(fwd)

R2Next == R2Feed

R2Spec == R2Init /\ [][R2Next]_vars

\* C32: the value that the R2 MF feed call returns is the decision (digit,
\* or none) of the latest completed detection block, however the samples
\* are divided among the calls, a call that completes no block included.
R2ReturnsLatest == s.called => s.ret = s.latest

\* What the code returns: the decision of the last block the call itself
\* completed, and none when it completed no block.
R2ReturnsOwnBlock ==
    s.called => s.ret = IF s.completed THEN s.latest ELSE "NONE"

\* A call that completed no block, made after a block that was a digit.
R2ShortCallAfterDigit == s.called /\ ~s.completed /\ s.latest = "F"

(***************************************************************************)
(* A caller that holds a document, against a far end whose DIS has the     *)
(* ready-to-receive bit (bit 10) set or clear.                             *)
(***************************************************************************)
\* The DIS with bit 10 cleared: the far end has nothing to receive into.
WithoutReceive(fr) ==
    [fr EXCEPT !.b[2] = IF test_octet_bit(@, 1) THEN @ - 2 ELSE @]

ReadyInit ==
    \E L \in CapLocal, P \in CapLocal, ready \in BOOLEAN :
        s = [CapEngine(TRUE, L) EXCEPT
                 !.far_caps = P,
                 !.far_dis = IF ready THEN CapDIS(P) ELSE WithoutReceive(CapDIS(P))]

ReadyNext ==
    \/ TimerUpdate
    \/ SendComplete
    \/ CapHdlcAccept

ReadySpec == ReadyInit /\ [][ReadyNext]_vars

\* The far end's DIS says that it is not ready to receive.
FarEndNotReady == s.far_dis # NoFrame /\ ~test_frame_bit(PaddedCopy(s.far_dis), 10)

\* The caller takes the far end's DIS in this step.
TakesDis == Live(s) /\ s.state = "T" /\ s' = Accept(s, s.far_dis)

\* C33: a caller that holds a document and receives a DIS whose bit 10 is
\* clear sets current_status to RX_INCAPABLE, sends DCN and nothing else and
\* is then in state C; no DCS sequence and no TCF follows the DCN.
RxIncapableEndsCall ==
    [][(s.tx_file /\ FarEndNotReady /\ TakesDis =>
            /\ s'.current_status = "RX_INCAPABLE"
            /\ s'.state = "C"
            /\ Len(s'.tx) = 1 /\ s'.tx[1].fcf = "DCN")
       /\ (s.current_status = "RX_INCAPABLE" =>
               /\ s'.state \notin {"D", "D_TCF", "D_POST_TCF"}
               /\ s'.phase # "C_NON_ECM_TX")]_vars

\* The caller has taken a DIS with bit 10 clear and has recorded the status.
RxIncapableSeen == s.tx_file /\ FarEndNotReady /\ s.current_status = "RX_INCAPABLE"

(***************************************************************************)
(* Call after call on one session: the application restarts the session    *)
(* when a call has finished.  trained_fallback is the row of the fallback  *)
(* table at which the trainability test last succeeded in the present call *)
(* (TCF answered by CFR), -1 when there is none, or an FTT, a CTC or CTR,   *)
(* or a change of the row came after it.                                   *)
(***************************************************************************)
MaxCalls == 2

Trained(old, new, fr) ==
    LET sent(fcf) == \E i \in 1..Len(new.tx) : new.tx[i].fcf = fcf
    IN IF sent("FTT") \/ sent("CTC") \/ sent("CTR") \/ fr.fcf \in {"FTT", "CTC", "CTR"}
       THEN -1
       ELSE IF sent("CFR") \/ (fr.fcf = "CFR" /\ old.state = "D_POST_TCF")
       THEN new.current_fallback
       ELSE IF new.current_fallback # old.current_fallback THEN -1
       ELSE old.trained_fallback

CallsTrack(old, new, fr) == [new EXCEPT !.trained_fallback = Trained(old, new, fr)]

CallsFrames(calling) ==
    IF calling
    THEN {Simple(f) : f \in {"CFR", "FTT", "MCF"}} \cup {FarDIS(FALSE, V29Modems)}
    ELSE {FarDCS(FALSE), Simple("EOP"), Simple("DCN")}

CallsHdlcAccept ==
    \E fr \in CallsFrames(s.calling_party) :
        Live(s) /\ Capped(s) /\ s' = CallsTrack(s, Accept(s, fr), fr)

CallsSendComplete ==
    /\ Live(s) /\ s.tx_busy
    /\ s' = CallsTrack(s, Done(s, send_complete([Enter(s) EXCEPT !.tx_busy = FALSE])), NoFrame)

CallsNonEcmSpecial ==
    \E cond \in {"TRAINING_SUCCEEDED", "TRAINING_FAILED", "CARRIER_DOWN"} :
        /\ Live(s) /\ Capped(s) /\ s.phase = "C_NON_ECM_RX"
        /\ s' = CallsTrack(s, Done(s, t30_non_ecm_put_bit_special(Enter(s), cond)), NoFrame)

CallsNonEcmPutChunk ==
    \E zeros \in ChunkLens, tail \in BOOLEAN, eod \in BOOLEAN :
        /\ Live(s) /\ Capped(s) /\ s.phase = "C_NON_ECM_RX" /\ s.rx_trained
        /\ s' = CallsTrack(s, Done(s, t30_non_ecm_put_chunk(Enter(s), zeros, tail, eod)),
                           NoFrame)

CallsTerminate ==
    Live(s) /\ s' = CallsTrack(s, Done(s, t30_terminate(Enter(s))), NoFrame)

\* The session after the application has restarted it for another call:
\* the count of the phase E callbacks starts again with the call.
NextCall(st) ==
    [t30_restart(Enter(st)) EXCEPT !.trained_fallback = -1, !.e_calls = 0, !.after = 0,
                                   !.calls = st.calls + 1]

CallsRestart ==
    /\ s.phase = "CALL_FINISHED" /\ s.calls < MaxCalls
    /\ s' = NextCall(s)

CallsInit ==
    \E calling \in BOOLEAN : s = t30_init(Cfg(calling, FALSE, V29Modems, 1, 1))

CallsNext ==
    \/ CallsSendComplete
    \/ CallsHdlcAccept
    \/ CallsNonEcmSpecial
    \/ CallsNonEcmPutChunk
    \/ CallsTerminate
    \/ CallsRestart

CallsSpec == CallsInit /\ [][CallsNext]_vars

\* The phases in which a fast modem runs.  set_phase starts it with
\* short_train as it is then, and in a call without ECM short_train is not
\* assigned while the phase lasts.
PhaseCModem == {"C_NON_ECM_RX", "C_NON_ECM_TX", "C_ECM_RX", "C_ECM_TX"}

\* C34: whenever a phase C modem has been selected with the short-train flag
\* true, a trainability test has succeeded at the present row of the
\* fallback table earlier in the same call, with no FTT, CTC or CTR and no
\* change of the row since; the first phase C entry of a call uses the long
\* training.
ShortTrainOnlyAfterTraining ==
    s.phase \in PhaseCModem /\ s.short_train =>
        s.trained_fallback = s.current_fallback

\* In a second call the phase C modem was selected with the short training
\* before any trainability test of that call.
ShortTrainInNextCall ==
    /\ s.calls = 1 /\ s.phase \in PhaseCModem /\ s.short_train
    /\ s.trained_fallback = -1

(***************************************************************************)
(* The row of the fallback table.  A receiver is sent a DCS whose rate     *)
(* bits (11..14) match no row; a sender is answered FTT until no row is    *)
(* left.  set_phase reads fallback_sequence[current_fallback] for a phase  *)
(* C modem, so what the session does once the index is outside the table   *)
(* is undefined: the behaviours are followed up to that state.             *)
(***************************************************************************)
\* The DCS with the rate bits 0100 (DISBIT5 alone), which no row carries.
WithUnknownRate(fr) ==
    [fr EXCEPT !.b[2] = (@ % 4) + 16 + 64 * (@ \div 64)]

RateFrames(calling) ==
    IF calling
    THEN {Simple(f) : f \in {"CFR", "FTT"}} \cup {FarDIS(FALSE, m) : m \in ModemSets}
    ELSE {FarDCS(FALSE), WithUnknownRate(FarDCS(FALSE)), Simple("MPS"), Simple("EOP")}

RateDefined(st) == st.current_fallback \in 0..7

RateHdlcAccept == RateDefined(s) /\ HdlcAcceptFrom(RateFrames(s.calling_party))

RateSendComplete == RateDefined(s) /\ SendComplete

RateNonEcmSpecial == RateDefined(s) /\ NonEcmSpecial

RateNonEcmPutChunk == RateDefined(s) /\ NonEcmPutChunk

RateInit ==
    \E calling \in BOOLEAN, modems \in ModemSets :
        s = t30_init(Cfg(calling, FALSE, modems, 1, 1))

RateNext ==
    \/ RateSendComplete
    \/ RateHdlcAccept
    \/ RateNonEcmSpecial
    \/ RateNonEcmPutChunk

RateSpec == RateInit /\ [][RateNext]_vars

\* C35: in every reachable state current_fallback is a row of the fallback
\* table that holds a modem (0..7), never -1 and never the terminating row,
\* also after a DCS whose rate bits match no row and after the fallback
\* rows are exhausted.
FallbackIndexValid == s.current_fallback \in 0..7

\* What holds of the sender: its index stays within the rows, also when the
\* rows are exhausted.
SenderIndexValid == s.calling_party => s.current_fallback \in 0..7

\* A receiver whose index is -1 after a DCS with an unknown rate.
UnknownRateTaken == ~s.calling_party /\ s.current_fallback = -1

\* A sender that gave up after the last row failed its trainability test.
FallbackExhausted == s.calling_party /\ s.current_status = "CANNOT_TRAIN"

\* The step is a restart of the session after a call that has finished.
CallRestarts == s.phase = "CALL_FINISHED" /\ s' = NextCall(s)

\* C36: a t30_restart after a call, however the call ended, leaves the
\* session as a restart of a freshly initialised session leaves it: the
\* T2/T4, T3 and T5 timers do not run, the retry counter is 0 and
\* dis_received and short_train are false.
RestartAsFresh ==
    [][CallRestarts =>
          /\ s'.timer_t2_t4 = 0 /\ s'.timer_t3 = 0 /\ s'.timer_t5 = 0
          /\ s'.retries = 0
          /\ ~s'.dis_received
          /\ ~s'.short_train]_vars

\* What t30_restart does set: the phase, the fallback row, the status and
\* the T0/T1 slot are those of a fresh session.
RestartSetsItsOwn ==
    [][CallRestarts =>
          /\ s'.phase \in {"A_CNG", "A_CED"} /\ s'.next_phase = "IDLE"
          /\ s'.current_fallback = 0 /\ s'.current_status = "OK"
          /\ s'.ppr_count = 0 /\ s'.receiver_not_ready_count = 0
          /\ ~s'.far_end_detected
          /\ s'.timer_t0_t1 = ms_to_samples(DEFAULT_TIMER_T0)]_vars

\* A session restarted after a call in which T2 was left running.
RestartedWithTimer ==
    s.calls = 1 /\ s.phase \in {"A_CNG", "A_CED"} /\ s.timer_t2_t4 > 0

\* The PPR frames of a receiver that still misses frames of the partial page.
MissingPprFrames == {FarPPR(m, PPR_FRAME_LEN) : m \in (SUBSET Slots) \ {{}}}

\* C37: a sender that waits in IV_PPS_RNR, its PPS deferred by RNR, and is
\* then answered PPR treats the PPR as it does in IV_PPS_NULL: it sends the
\* requested frames again (or CTC after the fourth PPR), and does not take
\* the PPR for an unexpected frame.
PprAfterRnrResends ==
    [][s.state = "IV_PPS_RNR" =>
          \A fr \in MissingPprFrames :
              s' = Accept(s, fr) =>
                  LET like == Accept([s EXCEPT !.state = "IV_PPS_NULL"], fr)
                  IN /\ s'.state = like.state
                     /\ s'.tx = like.tx
                     /\ s'.current_status = like.current_status
                     /\ s'.current_status # "UNEXPECTED"]_vars

\* The sender gave the call up as UNEXPECTED while T5, started by the RNR,
\* was running.
PprAfterRnrRefused ==
    /\ s.calling_party /\ s.state = "C" /\ s.current_status = "UNEXPECTED"
    /\ s.timer_t5 > 0
    /\ Len(s.tx) = 1 /\ s.tx[1].fcf = "DCN"

\* The step takes a frame with a good FCS that is too short or whose first
\* two octets are not those of a T.30 frame.
BadHeader ==
    \E hdr_ok \in BOOLEAN, len \in {2, 3} :
        /\ ~(hdr_ok /\ len = 3)
        /\ s' = Done(s, t30_hdlc_accept(Enter(s), Frame("CFR", 0, TRUE, len, "", <<>>, {}),
                                        TRUE, hdr_ok))

\* C38: a frame with a good FCS that is shorter than 3 octets or has a bad
\* header leaves the state, the phase, the status, the retry counter and
\* every timer, a running T2/T4 included, as they were, and nothing is sent.
BadHeaderIgnored ==
    [][BadHeader => SessionUntouched(s, s') /\ s'.tx = <<>>]_vars

\* What the code does: the frame stops T2/T4 and changes nothing else.
BadHeaderStopsT2T4 ==
    [][BadHeader =>
          /\ SessionUntouched([s EXCEPT !.timer_t2_t4 = 0], s')
          /\ s'.tx = <<>>]_vars

(***************************************************************************)
(* A session that sends a document of one or two pages without ECM and is  *)
(* answered page by page.                                                  *)
(***************************************************************************)
SourcePages == {1, 2}

DocInit == \E pages \in SourcePages : s = t30_init(Cfg(TRUE, FALSE, V29Modems, pages, 1))

DocHdlcAccept == HdlcAcceptFrom(TxFrames)

DocNext ==
    \/ SendComplete
    \/ DocHdlcAccept

DocSpec == DocInit /\ [][DocNext]_vars

\* The step takes the answer f to an MPS: the far end has stored the page
\* when f is MCF or RTP (t4_rx_end_page), and has not when f is RTN.
MpsAnswered(f) ==
    /\ s.state = "II_Q" /\ s.next_tx_step \in {"MPS", "PRI_MPS"}
    /\ s' = Accept(s, Simple(f))

\* The page the T.4 source is at, counted from 0.
SourcePage(st) == st.t4_pages - st.t4_pages_left

\* C39: a page the receiver has stored (answered with MCF or RTP) is never
\* sent again: after RTP in answer to MPS the sender retrains and goes on
\* with the next page, and only after RTN does it retrain and send the same
\* page again.
StoredPageNotResent ==
    [][/\ (MpsAnswered("MCF") \/ MpsAnswered("RTP")) => SourcePage(s') = SourcePage(s) + 1
       /\ MpsAnswered("RTN") => SourcePage(s') = SourcePage(s)]_vars

\* What the code does: MCF moves the source to the next page; RTP and RTN
\* both retrain and leave it at the start of the page just sent.
OnlyMcfMovesOn ==
    [][/\ MpsAnswered("MCF") => SourcePage(s') = SourcePage(s) + 1
       /\ \A f \in {"RTP", "RTN"} :
              MpsAnswered(f) =>
                  /\ SourcePage(s') = SourcePage(s)
                  /\ s'.t4_frames_left = s'.t4_page_frames
                  /\ s'.state = "D"]_vars

\* The first of two pages is about to be sent for the second time.
FirstPageSentAgain ==
    /\ s.state = "D" /\ s.next_tx_step \in {"MPS", "PRI_MPS"}
    /\ s.t4_pages = 2 /\ s.t4_pages_left = 2

\* The capability frames of the given kinds in the frames sent by the step.
SentOfKind(kinds) == {i \in DOMAIN s.tx : s.tx[i].fcf \in kinds}

\* C40: every DCS and every DIS or DTC sent is at least 6 octets long, so
\* a far end that ignores a DIS, DTC or DCS shorter than 6 octets ignores
\* none of them.
CapabilityFramesLongEnough ==
    \A i \in SentOfKind({"DIS", "DTC", "DCS"}) : s.tx[i].len >= MIN_DIS_DCS_LEN

\* What the code does: a DIS or DTC is at least 6 octets long, for the
\* minimum scan time it announces is never 20ms; a DCS is at least 5, and
\* 5 when octet 5 and all that follow are zero.
DcsMayBeFiveOctets ==
    /\ \A i \in SentOfKind({"DIS", "DTC"}) : s.tx[i].len >= MIN_DIS_DCS_LEN
    /\ \A i \in SentOfKind({"DCS"}) :
           /\ s.tx[i].len >= MIN_DIS_DCS_LEN - 1
           /\ s.tx[i].len = MIN_DIS_DCS_LEN - 1 <=>
                  \A k \in 5..18 : s.dcs_frame[k] = 0

\* A DCS of 5 octets is sent: A4 width and length, 20ms, no ECM.
ShortDcsSent ==
    \E i \in SentOfKind({"DCS"}) :
        /\ s.tx[i].len = 5
        /\ ~s.error_correcting_mode /\ s.min_scan_time_code = 0

====
